---- MODULE Spec2Model ----
(***************************************************************************)
(* NameGrid: layout of trading cards (gen_cards.py, gen_cards_ai.py) and   *)
(* of event nametags (generate.py) on US Letter pages.                     *)
(*                                                                         *)
(* Lengths are exact multiples of 1/1270 pt, the unit in which both the    *)
(* inch (72 pt) and the millimetre (72/25.4 pt) are whole numbers; the     *)
(* floating point rounding of the Python arithmetic is not modelled.       *)
(***************************************************************************)
EXTENDS Integers, Sequences, FiniteSets, TLC

VARIABLES
    prog,       \* the function that runs: "cards", "cards_ai", "nametags", "wrap", "nametag"
    cards,      \* the input list (cards / nametag_names), as a sequence of record ids
    pc,         \* position of the running function
    p,          \* page offset of the outer loop (print_trading_cards*)
    idx,        \* enumerate index of the inner loop / create_nametags' index
    ops,        \* the calls issued on the canvas by the tilers, in order
    text,       \* draw_multiline_text: the text argument
    max_width,  \* draw_multiline_text: the max_width argument
    font_size,  \* draw_multiline_text: the font_size argument
    words,      \* draw_multiline_text: words the for loop has still to visit
    line,       \* draw_multiline_text: the list line
    lines,      \* draw_multiline_text: the list lines
    drawn,      \* draw_multiline_text: the strings passed to drawString, in order
    name,       \* draw_nametag: the name argument
    role,       \* draw_nametag: the role argument
    tagline,    \* draw_nametag: the tagline argument
    max_font_size,  \* draw_nametag: the local max_font_size
    text_ops,       \* draw_nametag: the setFont and text drawing calls, in order
    bad_rec,    \* tilers: id of the input record that cannot be read, or -1
    fails,      \* tilers: number of drawImage calls that have raised so far
    error,      \* tilers: what the exception that left the function was about
    card,       \* card renderers: the card argument, a mapping from keys to values
    origin,     \* card renderers: the (x, y) argument
    img_ok,     \* card renderers: whether drawImage can draw an existing file
    card_index, \* card renderers: the card_index argument (AI cards)
    card_ops,   \* card renderers: the calls issued on the canvas, in order
    ai_on,      \* generate_ai_cards: whether ai_generator is not None
    auto,       \* generate_ai_cards: the auto_generate_backgrounds argument
    exists,     \* generate_ai_cards: whether the file named by the card's img exists
    mode,       \* generate_ai_cards: the enrichment operation chosen for the card
    posts,      \* image generator: POST requests sent for the card so far
    gets,       \* image generator: image downloads attempted for the card so far
    failure,    \* image generator: the step of the enrichment call that failed
    ret,        \* image generator: what generate_card_background or
                \*     modify_existing_artwork returned
    enriched,   \* generate_ai_cards: what modified_image / composite_image is
    disable_ai, \* generate_ai_cards: the disable_ai argument
    api_key,    \* generate_ai_cards: whether OPENAI_API_KEY is set
    cards_data, \* generate_ai_cards: the input list, as the caller holds it
    processed_cards,    \* generate_ai_cards: the list processed_cards
    results,    \* generate_ai_cards: per card, what the enrichment came to
    saves,      \* generate_ai_cards: image files written by save_generated_image
    arg,        \* image generator helpers: the arguments of the call
    retval      \* image generator helpers: what the call computed

vars == <<prog, cards, pc, p, idx, ops, text, max_width, font_size, words, line,
          lines, drawn, name, role, tagline, max_font_size, text_ops,
          bad_rec, fails, error, card, origin, img_ok, card_index, card_ops,
          ai_on, auto, exists, mode, posts, gets, failure, ret, enriched,
          disable_ai, api_key, cards_data, processed_cards, results, saves,
          arg, retval>>

tilerVars == <<prog, cards, pc, p, idx, ops>>
wrapVars == <<text, max_width, font_size, words, line, lines, drawn>>
tagVars == <<name, role, tagline, max_font_size, text_ops>>
envVars == <<bad_rec, fails, error>>
cardVars == <<card, origin, img_ok, card_index, card_ops>>
aiVars == <<ai_on, auto, exists, mode, posts, gets, failure, ret, enriched>>
batchVars == <<disable_ai, api_key, cards_data, processed_cards, results, saves>>
helperVars == <<arg, retval>>
otherVars == <<cardVars, aiVars, batchVars, helperVars>>

\* generate_ai_cards has not been called
NoBatch ==
    /\ disable_ai = FALSE /\ api_key = TRUE
    /\ cards_data = <<>> /\ processed_cards = <<>> /\ results = <<>> /\ saves = 0

\* no helper of the image generator has been called
NoHelper == arg = <<>> /\ retval = <<>>

(***************************************************************************)
(* Bounds                                                                  *)
(***************************************************************************)
MaxCards == 19      \* longest input list (cards or nametags)
MaxLen == 6         \* longest text handed to draw_multiline_text on its own
MaxM == 19          \* longest run of "m" in a nametag text
MaxI == 3           \* most " i" words appended to a nametag text
MaxFail == 1        \* most drawImage calls that raise during one run of a card tiler
MaxTitle == 13      \* longest card title, a run of "m"
MaxPrompt == 410    \* longest base prompt handed to _enhance_prompt
MaxBatch == 2       \* longest list of cards handed to generate_ai_cards
MaxDim == 24        \* largest width and height, in pixels, of an image handed to a helper

(***************************************************************************)
(* Units and geometry constants                                            *)
(***************************************************************************)
pt == 1270
inch == 91440
mm == 3600
letter == <<612 * pt, 792 * pt>>

CARD_WIDTH == (5 * inch) \div 2
CARD_HEIGHT == (7 * inch) \div 2

per_row == 3
per_col == 3
\* the runs that use the definitions of gen_cards_ai.py
IsAI == prog \in {"cards_ai", "front_ai", "ai"}

gap == IF IsAI THEN inch \div 20 ELSE inch \div 5
left == IF IsAI THEN (3 * inch) \div 20 ELSE (3 * inch) \div 10
top == IF IsAI THEN (3 * inch) \div 20 ELSE (3 * inch) \div 10

margin == 5 * mm
nametag_width == (34 * inch) \div 10
nametag_height == (34 * inch) \div 10
num_columns == 2
num_rows == 3
horizontal_gap == 0
vertical_gap == 0

(***************************************************************************)
(* Helpers standing for Python built-ins                                   *)
(***************************************************************************)
Min(a, b) == IF a < b THEN a ELSE b
Max(a, b) == IF a > b THEN a ELSE b

\* cards[a:b] for 0 <= a <= b
Slice(s, a, b) == SubSeq(s, a + 1, Min(b, Len(s)))

\* the canvas calls that are recorded
\* img tells whether the unit's image was drawn or its fallback was,
\* number is the card number printed on the unit, if any
DrawOp(kind, rec, slot, xy, img, number) ==
    [op |-> kind, card |-> rec, slot |-> slot, x |-> xy[1], y |-> xy[2], img |-> img,
     number |-> number]
ShowPageOp ==
    [op |-> "showPage", card |-> -1, slot |-> -1, x |-> 0, y |-> 0, img |-> "none",
     number |-> <<>>]
SaveOp ==
    [op |-> "save", card |-> -1, slot |-> -1, x |-> 0, y |-> 0, img |-> "none",
     number |-> <<>>]

(***************************************************************************)
(* Text: strings are sequences of characters.  The glyph advances stand    *)
(* for the metrics of the registered font, in tenths of the font size.     *)
(***************************************************************************)
Alphabet == {"i", "m", " "}

CharWidth(ch) == CASE ch = "i" -> 3
                   [] ch = "m" -> 10
                   [] OTHER -> 3

RECURSIVE Advance(_)
Advance(s) == IF s = <<>> THEN 0 ELSE CharWidth(Head(s)) + Advance(Tail(s))

\* c.stringWidth(s, font, size), in units of 1/1270 pt
stringWidth(s, size) == Advance(s) * size * (pt \div 10)

\* str.split(): maximal runs of non-blank characters
RECURSIVE SplitFrom(_, _, _)
SplitFrom(s, i, cur) ==
    IF i > Len(s)
    THEN IF cur = <<>> THEN <<>> ELSE <<cur>>
    ELSE IF s[i] = " "
         THEN IF cur = <<>> THEN SplitFrom(s, i + 1, <<>>)
                            ELSE <<cur>> \o SplitFrom(s, i + 1, <<>>)
         ELSE SplitFrom(s, i + 1, Append(cur, s[i]))

split(s) == SplitFrom(s, 1, <<>>)

\* " ".join(ws)
RECURSIVE join(_)
join(ws) ==
    IF ws = <<>> THEN <<>>
    ELSE IF Len(ws) = 1 THEN ws[1]
    ELSE ws[1] \o <<" ">> \o join(Tail(ws))

(***************************************************************************)
(* draw_multiline_text                                                     *)
(***************************************************************************)
line_width_word(l, size) == stringWidth(l[Len(l)], size)

\* line_width = c.stringWidth(" ".join(line), font, font_size)
line_width(l, size) == stringWidth(join(l), size)

popped_kept(l) == l

\* line.pop()
popped(l) == SubSeq(l, 1, Len(l) - 1)

flush_none(ls, l) == ls

\* if line: lines.append(" ".join(line))
flush(ls, l) == IF l # <<>> THEN Append(ls, join(l)) ELSE ls

\* the body of the for loop, on the pair (line, lines)
wrap_word(st, word, mw, size) ==
    LET l == Append(st.line, word) IN
    IF line_width(l, size) > mw
    THEN [line |-> <<word>>, lines |-> Append(st.lines, join(popped(l)))]
    ELSE [line |-> l, lines |-> st.lines]

\* the lines draw_multiline_text draws for the words ws, from the pair st on
RECURSIVE wrap_lines(_, _, _, _)
wrap_lines(ws, st, mw, size) ==
    IF ws = <<>> THEN flush(st.lines, st.line)
    ELSE wrap_lines(Tail(ws), wrap_word(st, Head(ws), mw, size), mw, size)

\* entry of the function: words = text.split(), lines = [], line = []
WrapStart ==
    /\ prog = "wrap"
    /\ pc = "call"
    /\ words' = split(text)
    /\ lines' = <<>>
    /\ line' = <<>>
    /\ pc' = "loop"
    /\ UNCHANGED <<prog, cards, p, idx, ops, text, max_width, font_size, drawn>>
    /\ UNCHANGED tagVars
    /\ UNCHANGED <<envVars, otherVars>>

\* one iteration of the for loop
WrapWord ==
    /\ prog = "wrap"
    /\ pc = "loop"
    /\ words # <<>>
    /\ LET st == wrap_word([line |-> line, lines |-> lines], Head(words),
                           max_width, font_size)
       IN /\ line' = st.line
          /\ lines' = st.lines
    /\ words' = Tail(words)
    /\ UNCHANGED <<prog, cards, pc, p, idx, ops, text, max_width, font_size, drawn>>
    /\ UNCHANGED tagVars
    /\ UNCHANGED <<envVars, otherVars>>

\* after the loop: the last line is appended and every line is drawn
WrapDraw ==
    /\ prog = "wrap"
    /\ pc = "loop"
    /\ words = <<>>
    /\ lines' = flush(lines, line)
    /\ drawn' = lines'
    /\ pc' = "done"
    /\ UNCHANGED <<prog, cards, p, idx, ops, text, max_width, font_size, words, line>>
    /\ UNCHANGED tagVars
    /\ UNCHANGED <<envVars, otherVars>>

Texts == UNION {[1..n -> Alphabet] : n \in 0..MaxLen}
MaxWidths == {10 * pt, 30 * pt}
FontSizes == {14, 16}

InitWrap ==
    /\ prog = "wrap"
    /\ pc = "call"
    /\ text \in Texts
    /\ max_width \in MaxWidths
    /\ font_size \in FontSizes
    /\ words = <<>> /\ line = <<>> /\ lines = <<>> /\ drawn = <<>>
    /\ cards = <<>> /\ p = 0 /\ idx = 0 /\ ops = <<>>
    /\ name = <<>> /\ role = <<>> /\ tagline = <<>>
    /\ max_font_size = 0 /\ text_ops = <<>>
    /\ bad_rec = -1 /\ fails = 0 /\ error = "none"
    /\ card = <<>> /\ origin = <<0, 0>> /\ img_ok = TRUE
    /\ card_index = 0 /\ card_ops = <<>>
    /\ ai_on = FALSE /\ auto = FALSE /\ exists = TRUE /\ mode = "none"
    /\ posts = 0 /\ gets = 0 /\ failure = "none" /\ ret = "pending"
    /\ enriched = "pending"
    /\ NoBatch /\ NoHelper

NextWrap ==
    \/ WrapStart
    \/ WrapWord
    \/ WrapDraw

SpecWrap == InitWrap /\ [][NextWrap]_vars

(***************************************************************************)
(* draw_nametag: the text it sets (the images and the year are left out)   *)
(***************************************************************************)
\* 3.4 * inch - 10 * mm, the width the name, tagline and role are fitted to
box_width == nametag_width - 10 * mm

shrinks_floorless(t, size, min_font_size) == stringWidth(t, size) > box_width

\* the condition of the two while loops
shrinks(t, size, min_font_size) ==
    stringWidth(t, size) > box_width /\ size > min_font_size

SetFont(field, size) ==
    [op |-> "setFont", field |-> field, size |-> size, text |-> <<>>, via |-> "canvas"]
DrawString(field, size, t, via) ==
    [op |-> "drawString", field |-> field, size |-> size, text |-> t, via |-> via]

\* the drawString calls of draw_multiline_text(c, t, box_width, ..., font_1, size)
MultilineOps(field, size, t) ==
    LET ls == wrap_lines(split(t), [line |-> <<>>, lines |-> <<>>], box_width, size)
    IN [j \in DOMAIN ls |-> DrawString(field, size, ls[j], "multiline")]

\* if len(t) > 21: draw_multiline_text(...) else: c.drawString(...)
TextOps(field, size, t) ==
    IF Len(t) > 21 THEN MultilineOps(field, size, t)
    ELSE <<DrawString(field, size, t, "direct")>>

\* entry up to the first while: max_font_size = 22, c.setFont(font_1, 22)
NametagStart ==
    /\ prog = "nametag"
    /\ pc = "call"
    /\ max_font_size' = 22
    /\ text_ops' = Append(text_ops, SetFont("name", 22))
    /\ pc' = "name_fit"
    /\ UNCHANGED <<prog, cards, p, idx, ops, name, role, tagline>>
    /\ UNCHANGED wrapVars
    /\ UNCHANGED <<envVars, otherVars>>

\* one iteration of the while loop over the name
NameShrink ==
    /\ prog = "nametag"
    /\ pc = "name_fit"
    /\ shrinks(name, max_font_size, 16)
    /\ max_font_size' = max_font_size - 1
    /\ text_ops' = Append(text_ops, SetFont("name", max_font_size - 1))
    /\ UNCHANGED <<prog, cards, pc, p, idx, ops, name, role, tagline>>
    /\ UNCHANGED wrapVars
    /\ UNCHANGED <<envVars, otherVars>>

\* the name is drawn; max_font_size = 16, c.setFont(font_1, 16) for the tagline
NameDraw ==
    /\ prog = "nametag"
    /\ pc = "name_fit"
    /\ ~shrinks(name, max_font_size, 16)
    /\ max_font_size' = 16
    /\ text_ops' = (text_ops \o TextOps("name", max_font_size, name))
                       \o <<SetFont("tagline", 16)>>
    /\ pc' = "tagline_fit"
    /\ UNCHANGED <<prog, cards, p, idx, ops, name, role, tagline>>
    /\ UNCHANGED wrapVars
    /\ UNCHANGED <<envVars, otherVars>>

\* one iteration of the while loop over the tagline
TaglineShrink ==
    /\ prog = "nametag"
    /\ pc = "tagline_fit"
    /\ shrinks(tagline, max_font_size, 12)
    /\ max_font_size' = max_font_size - 1
    /\ text_ops' = Append(text_ops, SetFont("tagline", max_font_size - 1))
    /\ UNCHANGED <<prog, cards, pc, p, idx, ops, name, role, tagline>>
    /\ UNCHANGED wrapVars
    /\ UNCHANGED <<envVars, otherVars>>

\* the tagline is drawn on one line, then the role at size 14
TaglineDraw ==
    /\ prog = "nametag"
    /\ pc = "tagline_fit"
    /\ ~shrinks(tagline, max_font_size, 12)
    /\ text_ops' = ((text_ops \o <<DrawString("tagline", max_font_size, tagline, "direct")>>)
                        \o <<SetFont("role", 14)>>)
                        \o TextOps("role", 14, role)
    /\ pc' = "done"
    /\ UNCHANGED <<prog, cards, p, idx, ops, name, role, tagline, max_font_size>>
    /\ UNCHANGED wrapVars
    /\ UNCHANGED <<envVars, otherVars>>

RECURSIVE Rep(_, _)
Rep(s, k) == IF k = 0 THEN <<>> ELSE s \o Rep(s, k - 1)

\* a run of a "m", then b words "i"
Txt(a, b) == Rep(<<"m">>, a) \o Rep(<<" ", "i">>, b)

NameTexts == {Txt(a, b) : a \in 0..MaxM, b \in 0..MaxI}
RoleTexts == {Txt(a, b) : a \in {0, MaxM}, b \in {0, MaxI}}

InitNametag ==
    /\ prog = "nametag"
    /\ pc = "call"
    /\ name \in NameTexts
    /\ tagline \in NameTexts
    /\ role \in RoleTexts
    /\ max_font_size = 0
    /\ text_ops = <<>>
    /\ cards = <<>> /\ p = 0 /\ idx = 0 /\ ops = <<>>
    /\ text = <<>> /\ max_width = 0 /\ font_size = 0
    /\ words = <<>> /\ line = <<>> /\ lines = <<>> /\ drawn = <<>>
    /\ bad_rec = -1 /\ fails = 0 /\ error = "none"
    /\ card = <<>> /\ origin = <<0, 0>> /\ img_ok = TRUE
    /\ card_index = 0 /\ card_ops = <<>>
    /\ ai_on = FALSE /\ auto = FALSE /\ exists = TRUE /\ mode = "none"
    /\ posts = 0 /\ gets = 0 /\ failure = "none" /\ ret = "pending"
    /\ enriched = "pending"
    /\ NoBatch /\ NoHelper

NextNametag ==
    \/ NametagStart
    \/ NameShrink
    \/ NameDraw
    \/ TaglineShrink
    \/ TaglineDraw

SpecNametag == InitNametag /\ [][NextNametag]_vars

(***************************************************************************)
(* print_trading_cards / print_trading_cards_ai                            *)
(***************************************************************************)
get_xy_swapped(i) ==
    LET row == i % per_row
        col == i \div per_row
        x == left + col * (CARD_WIDTH + gap)
        y == letter[2] - top - (row + 1) * CARD_HEIGHT - row * gap
    IN <<x, y>>

get_xy(i) ==
    LET row == i \div per_row
        col == i % per_row
        x == left + col * (CARD_WIDTH + gap)
        y == letter[2] - top - (row + 1) * CARD_HEIGHT - row * gap
    IN <<x, y>>

\* the slice cards[p:p+per_row*per_col] the inner loop enumerates
PageCards_short == Slice(cards, p, p + per_row * per_col - 1)
PageCards == Slice(cards, p, p + per_row * per_col)

\* the step of range(0, len(cards), per_row * per_col)
NextPage_row(q) == q + per_row
NextPage(q) == q + per_row * per_col

\* what a card face draws when drawImage raises inside its try block
ImageOutcomes == IF fails < MaxFail THEN {"image", "fallback"} ELSE {"image"}

\* the record the next draw call of a tiler is about
NextRecord ==
    IF prog = "nametags" THEN cards[idx + 1] ELSE PageCards[idx + 1]

\* a tiler is about to render a unit
UnitPending ==
    \/ prog \in {"cards", "cards_ai"} /\ pc \in {"front", "back"}
           /\ p < Len(cards) /\ idx < Len(PageCards)
    \/ prog = "nametags" /\ pc = "loop" /\ idx < Len(cards)

Abort_swallowed(cause) ==
    /\ error' = cause
    /\ idx' = idx + 1
    /\ UNCHANGED <<pc, ops, p>>

\* an exception leaves the tiler: nothing after the raising call is executed
Abort(cause) ==
    /\ error' = cause
    /\ pc' = "raised"
    /\ UNCHANGED <<ops, idx, p>>

\* what can raise out of the render of the next unit: reading an unreadable
\* record, a draw call outside any try block, and, in draw_nametag, drawImage
RaiseCauses ==
    IF NextRecord = bad_rec THEN {"record"}
    ELSE IF prog = "nametags" THEN {"draw", "image"} ELSE {"draw"}

\* the render of a unit raises and no handler of the tiler catches it
UnitRaise ==
    /\ UnitPending
    /\ \E cause \in RaiseCauses : Abort(cause)
    /\ UNCHANGED <<prog, cards, bad_rec, fails>>
    /\ UNCHANGED <<wrapVars, tagVars, otherVars>>

\* f"#{card_index:03d}"
DigitChar == <<"0", "1", "2", "3", "4", "5", "6", "7", "8", "9">>
RECURSIVE Digits(_)
Digits(n) == IF n < 10 THEN <<DigitChar[n + 1]>>
             ELSE Append(Digits(n \div 10), DigitChar[(n % 10) + 1])
card_number(n) ==
    LET ds == Digits(n) IN
    <<"#">> \o (IF Len(ds) < 3 THEN Rep(<<"0">>, 3 - Len(ds)) ELSE <<>>) \o ds

front_card_index_slot(pp, i) == i

\* card_index = p + idx, the global index of the card
front_card_index(pp, i) == pp + i

\* the card number draw_trading_card_front_ai prints; the plain front has none
FrontNumber == IF prog = "cards_ai" THEN card_number(front_card_index(p, idx)) ELSE <<>>

\* one iteration of the inner loop of the front pass
FrontDraw ==
    /\ prog \in {"cards", "cards_ai"}
    /\ pc = "front"
    /\ p < Len(cards)
    /\ idx < Len(PageCards)
    /\ PageCards[idx + 1] # bad_rec
    /\ \E img \in ImageOutcomes :
          /\ ops' = Append(ops, DrawOp("front", PageCards[idx + 1], idx, get_xy(idx), img,
                                      FrontNumber))
          /\ fails' = IF img = "fallback" THEN fails + 1 ELSE fails
    /\ idx' = idx + 1
    /\ UNCHANGED <<prog, cards, pc, p, bad_rec, error>>
    /\ UNCHANGED <<wrapVars, tagVars, otherVars>>

FrontShowPage_unclosed ==
    /\ prog \in {"cards", "cards_ai"}
    /\ pc = "front"
    /\ p < Len(cards)
    /\ idx = Len(PageCards)
    /\ p' = NextPage(p)
    /\ idx' = 0
    /\ UNCHANGED <<prog, cards, pc, ops>>
    /\ UNCHANGED <<wrapVars, tagVars, envVars, otherVars>>

\* end of the inner loop of the front pass: c.showPage(), next p
FrontShowPage ==
    /\ prog \in {"cards", "cards_ai"}
    /\ pc = "front"
    /\ p < Len(cards)
    /\ idx = Len(PageCards)
    /\ ops' = Append(ops, ShowPageOp)
    /\ p' = NextPage(p)
    /\ idx' = 0
    /\ UNCHANGED <<prog, cards, pc>>
    /\ UNCHANGED <<wrapVars, tagVars, envVars, otherVars>>

\* range(0, len(cards), 9) of the front pass is exhausted
FrontExit ==
    /\ prog \in {"cards", "cards_ai"}
    /\ pc = "front"
    /\ p >= Len(cards)
    /\ pc' = "back"
    /\ p' = 0
    /\ idx' = 0
    /\ UNCHANGED <<prog, cards, ops>>
    /\ UNCHANGED <<wrapVars, tagVars, envVars, otherVars>>

\* one iteration of the inner loop of the back pass
BackDraw ==
    /\ prog \in {"cards", "cards_ai"}
    /\ pc = "back"
    /\ p < Len(cards)
    /\ idx < Len(PageCards)
    /\ PageCards[idx + 1] # bad_rec
    /\ \E img \in ImageOutcomes :
          /\ ops' = Append(ops, DrawOp("back", PageCards[idx + 1], idx, get_xy(idx), img,
                                      <<>>))
          /\ fails' = IF img = "fallback" THEN fails + 1 ELSE fails
    /\ idx' = idx + 1
    /\ UNCHANGED <<prog, cards, pc, p, bad_rec, error>>
    /\ UNCHANGED <<wrapVars, tagVars, otherVars>>

\* end of the inner loop of the back pass: c.showPage(), next p
BackShowPage ==
    /\ prog \in {"cards", "cards_ai"}
    /\ pc = "back"
    /\ p < Len(cards)
    /\ idx = Len(PageCards)
    /\ ops' = Append(ops, ShowPageOp)
    /\ p' = NextPage(p)
    /\ idx' = 0
    /\ UNCHANGED <<prog, cards, pc>>
    /\ UNCHANGED <<wrapVars, tagVars, envVars, otherVars>>

\* the back pass is exhausted: c.save()
CardsSave ==
    /\ prog \in {"cards", "cards_ai"}
    /\ pc = "back"
    /\ p >= Len(cards)
    /\ ops' = Append(ops, SaveOp)
    /\ pc' = "done"
    /\ UNCHANGED <<prog, cards, p, idx>>
    /\ UNCHANGED <<wrapVars, tagVars, envVars, otherVars>>

(***************************************************************************)
(* draw_trading_card_front / draw_trading_card_front_ai                    *)
(*                                                                         *)
(* The card geometry has offsets of a quarter point and a scale of 1.05,   *)
(* so the renderers compute in units of 1/4000 pt.  The calls that only    *)
(* set colours, line widths and dashes are left out; the font size in      *)
(* force is recorded with each text call.                                  *)
(***************************************************************************)
\* a length given in units of 1/1270 pt, in units of 1/4000 pt
cu(v) == (v \div 127) * 400

MARGIN == cu(inch) \div 8
TITLE_HEIGHT == IF IsAI THEN (3 * cu(inch)) \div 10 - cu(2 * pt) ELSE (3 * cu(inch)) \div 10
TYPE_LINE_HEIGHT == IF IsAI THEN (14 * cu(inch)) \div 100 ELSE cu(inch) \div 5
ALT_BOX_HEIGHT == (15 * cu(inch)) \div 100
TEXT_BOX_HEIGHT == IF IsAI THEN (11 * cu(inch)) \div 10 + cu(24 * pt) ELSE (11 * cu(inch)) \div 10
TEXT_PADDING == (8 * cu(inch)) \div 100

\* dict.get(k, dflt)
get(c, k, dflt) == IF k \in DOMAIN c THEN c[k] ELSE dflt

\* c.stringWidth(s, font, size) in units of 1/4000 pt
cardStringWidth(s, size) == Advance(s) * size * (cu(pt) \div 10)

logo_path == <<"l", "o", "g", "o">>
IMAGE == <<"I", "M", "A", "G", "E">>

\* whether c.drawImage(path, ...) draws: the file must exist and decode
\* the path save_generated_image returns
saved_path == <<"s", "a", "v", "e", "d">>

DrawImageOK(path) == path # <<>> /\ (path = saved_path \/ img_ok)

\* one canvas call; part names the element of the card the call belongs to
CanvasOp(part, kind, x, y, w, h, t, size) ==
    [part |-> part, op |-> kind, x |-> x, y |-> y, w |-> w, h |-> h,
     text |-> t, size |-> size]

\* the rectangle (img_x, img_y, img_w, img_h) of draw_trading_card_front
ImageRect(c, x, y) ==
    LET content_x == x + MARGIN
        content_y == y + MARGIN
        content_width == cu(CARD_WIDTH) - 2 * MARGIN
        content_height == cu(CARD_HEIGHT) - 2 * MARGIN
        title_y == content_y + content_height - TITLE_HEIGHT
        type_y == title_y - TYPE_LINE_HEIGHT
        art_height == content_height - TITLE_HEIGHT - TYPE_LINE_HEIGHT
                          - ALT_BOX_HEIGHT - TEXT_BOX_HEIGHT
        art_y == type_y - art_height
        img_margin == TEXT_PADDING
    IN [x |-> content_x + img_margin, y |-> art_y + img_margin,
        w |-> content_width - 2 * img_margin, h |-> art_height - 2 * img_margin]

\* the rectangle (img_x, img_y, img_w, img_h) of draw_trading_card_front_ai
ImageRectAI(c, x, y) ==
    LET content_x == x + MARGIN
        content_y == y + MARGIN
        content_width == cu(CARD_WIDTH) - 2 * MARGIN
        content_height == cu(CARD_HEIGHT) - 2 * MARGIN
        title_y == content_y + content_height - TITLE_HEIGHT
        type_y == title_y - TYPE_LINE_HEIGHT - cu(1 * pt)
        text_box_top == content_y + TEXT_BOX_HEIGHT
        img_bottom == IF get(c, "alt", <<>>) # <<>> THEN text_box_top + ALT_BOX_HEIGHT
                      ELSE text_box_top
        base_img_w == content_width
        base_img_h == (type_y - img_bottom) + TYPE_LINE_HEIGHT + cu(4 * pt)
        scaled_img_w == (base_img_w * 21) \div 20
        scaled_img_h == (base_img_h * 21) \div 20
        vertical_gap_ == cu(pt) \div 4
    IN [x |-> content_x + vertical_gap_ - ((scaled_img_w - base_img_w) \div 2),
        y |-> img_bottom - ((scaled_img_h - base_img_h) \div 2) - cu(4 * pt) + cu(6 * pt),
        w |-> scaled_img_w - 2 * vertical_gap_,
        h |-> scaled_img_h,
        bottom |-> img_bottom]

Rect(c, x, y) == IF IsAI THEN ImageRectAI(c, x, y) ELSE ImageRect(c, x, y)

PlaceholderRect_content(c, x, y) ==
    [x |-> x + MARGIN, y |-> y + MARGIN,
     w |-> cu(CARD_WIDTH) - 2 * MARGIN, h |-> cu(CARD_HEIGHT) - 2 * MARGIN]

\* the rectangle of the placeholder box: c.rect(img_x, img_y, img_w, img_h, ...)
PlaceholderRect(c, x, y) ==
    LET r == Rect(c, x, y) IN [x |-> r.x, y |-> r.y, w |-> r.w, h |-> r.h]

\* the calls of the except block
Placeholder(c, x, y) ==
    LET r == PlaceholderRect(c, x, y) IN
    <<CanvasOp("image", "rect", r.x, r.y, r.w, r.h, <<>>, 0),
      CanvasOp("image", "drawCentredString", r.x + r.w \div 2, r.y + r.h \div 2, 0, 0, IMAGE,
               IF IsAI THEN 9 ELSE 10)>>

\* the try block around c.drawImage(img_path, img_x, img_y, img_w, img_h, ...)
ImageOps(c, x, y) ==
    LET r == Rect(c, x, y)
        img_path == get(c, "img", logo_path)
    IN IF DrawImageOK(img_path)
       THEN <<CanvasOp("image", "drawImage", r.x, r.y, r.w, r.h, img_path, 0)>>
       ELSE Placeholder(c, x, y)

\* the outer border of the card
BorderOps(x, y) ==
    <<CanvasOp("border", "roundRect", x, y, cu(CARD_WIDTH), cu(CARD_HEIGHT), <<>>, 0)>>

\* title box and title, type line and type text of draw_trading_card_front
TitleOps(c, x, y) ==
    LET content_x == x + MARGIN
        content_y == y + MARGIN
        content_width == cu(CARD_WIDTH) - 2 * MARGIN
        content_height == cu(CARD_HEIGHT) - 2 * MARGIN
        title_y == content_y + content_height - TITLE_HEIGHT
        type_y == title_y - TYPE_LINE_HEIGHT
    IN <<CanvasOp("title", "rect", content_x, title_y, content_width, TITLE_HEIGHT, <<>>, 0),
         CanvasOp("title", "drawCentredString", content_x + content_width \div 2,
                  title_y + TITLE_HEIGHT \div 2 - cu(6 * pt), 0, 0,
                  get(c, "title", <<>>), 16),
         CanvasOp("type", "rect", content_x, type_y, content_width, TYPE_LINE_HEIGHT, <<>>, 0),
         CanvasOp("type", "drawString", content_x + TEXT_PADDING,
                  type_y + TYPE_LINE_HEIGHT \div 2 - cu(5 * pt), 0, 0,
                  get(c, "type", <<>>), 12)>>

\* title box and title of draw_trading_card_front_ai
TitleOpsAI(c, x, y) ==
    LET content_x == x + MARGIN
        content_y == y + MARGIN
        content_width == cu(CARD_WIDTH) - 2 * MARGIN
        content_height == cu(CARD_HEIGHT) - 2 * MARGIN
        title_y == content_y + content_height - TITLE_HEIGHT
        title_expansion == 0 - cu(1 * pt)
        expanded_title_x == content_x - title_expansion
        expanded_title_width == content_width + 2 * title_expansion
    IN <<CanvasOp("title", "rect", expanded_title_x, title_y, expanded_title_width, TITLE_HEIGHT,
                  <<>>, 0),
         CanvasOp("title", "drawString", expanded_title_x + TEXT_PADDING,
                  title_y + TITLE_HEIGHT \div 2 - cu(5 * pt), 0, 0,
                  get(c, "title", <<>>), 14)>>

AltOps_always(c, x, y) ==
    LET content_x == x + MARGIN
        content_width == cu(CARD_WIDTH) - 2 * MARGIN
        alt_box_y == y + MARGIN + TEXT_BOX_HEIGHT
        alt == get(c, "alt", <<>>)
    IN <<CanvasOp("alt", "rect", content_x, alt_box_y, content_width, ALT_BOX_HEIGHT, <<>>, 0),
         CanvasOp("alt", "drawCentredString", content_x + content_width \div 2,
                  alt_box_y + ALT_BOX_HEIGHT \div 2 - cu(4 * pt), 0, 0, alt, 9)>>

\* the alt text box of draw_trading_card_front: if alt: ...
AltOps(c, x, y) ==
    LET content_x == x + MARGIN
        content_width == cu(CARD_WIDTH) - 2 * MARGIN
        r == ImageRect(c, x, y)
        art_y == r.y - TEXT_PADDING
        alt_box_y == art_y - ALT_BOX_HEIGHT
        alt == get(c, "alt", <<>>)
    IN IF alt # <<>>
       THEN <<CanvasOp("alt", "rect", content_x, alt_box_y, content_width, ALT_BOX_HEIGHT,
                       <<>>, 0),
              CanvasOp("alt", "drawCentredString", content_x + content_width \div 2,
                       alt_box_y + ALT_BOX_HEIGHT \div 2 - cu(4 * pt), 0, 0, alt, 9)>>
       ELSE <<>>

\* the combined type/alt box of draw_trading_card_front_ai: if alt or card_type: ...
AltOpsAI(c, x, y) ==
    LET content_x == x + MARGIN
        content_width == cu(CARD_WIDTH) - 2 * MARGIN
        alt_box_y == ImageRectAI(c, x, y).bottom - cu(4 * pt)
        alt_box_height == ALT_BOX_HEIGHT + cu(4 * pt)
        alt == get(c, "alt", <<>>)
        card_type == get(c, "type", <<>>)
        text_y == alt_box_y + alt_box_height \div 2 - cu(3 * pt)
    IN IF alt # <<>> \/ card_type # <<>>
       THEN (<<CanvasOp("alt", "rect", content_x, alt_box_y, content_width, alt_box_height,
                        <<>>, 0)>>
             \o (IF card_type # <<>>
                 THEN <<CanvasOp("alt", "drawString", content_x + TEXT_PADDING, text_y, 0, 0,
                                 card_type, 8)>>
                 ELSE <<>>))
             \o (IF alt # <<>>
                 THEN <<CanvasOp("alt", "drawRightString", content_x + content_width - TEXT_PADDING,
                                 text_y, 0, 0, alt, 8)>>
                 ELSE <<>>)
       ELSE <<>>

\* the font size of the action paragraph
action_font_size(action) ==
    IF Len(action) > 200 THEN (IF IsAI THEN 7 ELSE 8)
    ELSE IF Len(action) > 100 THEN (IF IsAI THEN 8 ELSE 9)
    ELSE (IF IsAI THEN 9 ELSE 10)

\* the text box and the action paragraph; the height reportlab gives the
\* paragraph, and with it the y of drawOn, is not modelled
TextBoxOps(c, x, y) ==
    LET content_x == x + MARGIN
        content_y == y + MARGIN
        content_width == cu(CARD_WIDTH) - 2 * MARGIN
        action == get(c, "action", <<>>)
    IN <<CanvasOp("text", "rect", content_x, content_y, content_width, TEXT_BOX_HEIGHT,
                  <<>>, 0)>>
       \o (IF action # <<>>
           THEN <<CanvasOp("action", "paragraph", content_x + TEXT_PADDING, 0,
                           content_width - 2 * TEXT_PADDING,
                           TEXT_BOX_HEIGHT - 2 * TEXT_PADDING,
                           action, action_font_size(action))>>
           ELSE <<>>)

\* the detail text of draw_trading_card_front: if detail: ...
DetailOps(c, x, y) ==
    LET content_x == x + MARGIN
        content_y == y + MARGIN
        content_width == cu(CARD_WIDTH) - 2 * MARGIN
        detail == get(c, "detail", <<>>)
    IN IF detail # <<>>
       THEN <<CanvasOp("detail", "drawCentredString", content_x + content_width \div 2,
                       content_y - TEXT_PADDING, 0, 0, detail, 6)>>
       ELSE <<>>

\* the card number and the detail text of draw_trading_card_front_ai
DetailOpsAI(c, x, y, index) ==
    LET content_x == x + MARGIN
        content_y == y + MARGIN
        content_width == cu(CARD_WIDTH) - 2 * MARGIN
        detail == get(c, "detail", <<>>)
        detail_y == content_y - TEXT_PADDING + cu(1 * pt)
    IN <<CanvasOp("number", "drawString", content_x + TEXT_PADDING, detail_y, 0, 0,
                  card_number(index), 5)>>
       \o (IF detail # <<>>
           THEN <<CanvasOp("detail", "drawRightString", content_x + content_width - TEXT_PADDING,
                           detail_y, 0, 0, detail, 5)>>
           ELSE <<>>)

\* the calls before the try block
HeadOps(c, x, y) ==
    IF IsAI THEN BorderOps(x, y) ELSE BorderOps(x, y) \o TitleOps(c, x, y)

\* the calls after the try block
TailOps(c, x, y, index) ==
    IF IsAI
    THEN ((TitleOpsAI(c, x, y) \o AltOpsAI(c, x, y)) \o TextBoxOps(c, x, y))
             \o DetailOpsAI(c, x, y, index)
    ELSE (AltOps(c, x, y) \o TextBoxOps(c, x, y)) \o DetailOps(c, x, y)

\* the programs that run one card front renderer
Renderers == {"front", "front_ai", "ai"}

\* entry of the renderer up to the try block
CardHead ==
    /\ prog \in Renderers
    /\ pc = "call"
    /\ card_ops' = card_ops \o HeadOps(card, origin[1], origin[2])
    /\ pc' = "image"
    /\ UNCHANGED <<prog, cards, p, idx, ops, card, origin, img_ok, card_index>>
    /\ UNCHANGED <<wrapVars, tagVars, envVars, aiVars, batchVars, helperVars>>

\* the try block: the image, or the placeholder when drawImage raises
CardImage ==
    /\ prog \in Renderers
    /\ pc = "image"
    /\ card_ops' = card_ops \o ImageOps(card, origin[1], origin[2])
    /\ pc' = "rest"
    /\ UNCHANGED <<prog, cards, p, idx, ops, card, origin, img_ok, card_index>>
    /\ UNCHANGED <<wrapVars, tagVars, envVars, aiVars, batchVars, helperVars>>

\* the rest of the renderer, up to its return
CardTail ==
    /\ prog \in Renderers
    /\ pc = "rest"
    /\ card_ops' = card_ops \o TailOps(card, origin[1], origin[2], card_index)
    /\ pc' = "done"
    /\ UNCHANGED <<prog, cards, p, idx, ops, card, origin, img_ok, card_index>>
    /\ UNCHANGED <<wrapVars, tagVars, envVars, aiVars, batchVars, helperVars>>

CardKeys == {"title", "type", "img", "action", "alt", "detail"}
TitleTexts == {Rep(<<"m">>, a) : a \in 0..MaxTitle}
ShortTexts == {<<>>, <<"i", "m">>}
ActionTexts == {<<>>, <<"i">>, [k \in 1..101 |-> "i"], [k \in 1..201 |-> "i"]}
ImagePaths == {<<>>, <<"a", "r", "t">>}

FullCards == [title : TitleTexts, type : ShortTexts, img : ImagePaths,
              action : ActionTexts, alt : ShortTexts, detail : ShortTexts]

\* card records: every key may be missing
CardRecords == {[k \in D |-> f[k]] : f \in FullCards, D \in SUBSET CardKeys}

InitCard ==
    /\ prog \in {"front", "front_ai"}
    /\ pc = "call"
    /\ card \in CardRecords
    /\ \E slot \in {0, 4} : origin = <<cu(get_xy(slot)[1]), cu(get_xy(slot)[2])>>
    /\ img_ok \in BOOLEAN
    /\ card_index \in {0, 12}
    /\ card_ops = <<>>
    /\ ai_on = FALSE /\ auto = FALSE /\ exists = TRUE /\ mode = "none"
    /\ posts = 0 /\ gets = 0 /\ failure = "none" /\ ret = "pending"
    /\ enriched = "pending"
    /\ NoBatch /\ NoHelper
    /\ cards = <<>> /\ p = 0 /\ idx = 0 /\ ops = <<>>
    /\ bad_rec = -1 /\ fails = 0 /\ error = "none"
    /\ text = <<>> /\ max_width = 0 /\ font_size = 0
    /\ words = <<>> /\ line = <<>> /\ lines = <<>> /\ drawn = <<>>
    /\ name = <<>> /\ role = <<>> /\ tagline = <<>>
    /\ max_font_size = 0 /\ text_ops = <<>>

NextCard ==
    \/ CardHead
    \/ CardImage
    \/ CardTail

SpecCard == InitCard /\ [][NextCard]_vars

(***************************************************************************)
(* OpenAIImageGenerator._process_image_for_card                            *)
(*                                                                         *)
(* Sizes are in pixels.  The float comparisons and products of the source  *)
(* (width / height against 5/3, int(height * 5/3), int(width / (5/3)))     *)
(* agree with the integer forms below for all sizes up to 5000.            *)
(***************************************************************************)
target_width == 1500
target_height == 900

\* the box handed to image.crop, or the whole image when no branch is taken
crop_box(width, height) ==
    IF 3 * width > 5 * height
    THEN LET new_width == (5 * height) \div 3
             left_ == (width - new_width) \div 2
         IN [left |-> left_, top |-> 0, right |-> left_ + new_width, bottom |-> height]
    ELSE IF 3 * width < 5 * height
    THEN LET new_height == (3 * width) \div 5
             top_ == (height - new_height) \div 2
         IN [left |-> 0, top |-> top_, right |-> width, bottom |-> top_ + new_height]
    ELSE [left |-> 0, top |-> 0, right |-> width, bottom |-> height]

\* image.resize((target_width, target_height)): what Pillow does with an
\* image without pixels is not fixed by the source, so both outcomes stand
ResizeOutcomes(box) ==
    IF box.right > box.left /\ box.bottom > box.top THEN {"resized"}
    ELSE {"resized", "raised"}

ProcessImage ==
    /\ prog = "process"
    /\ pc = "call"
    /\ \E outcome \in ResizeOutcomes(crop_box(arg[1], arg[2])) :
           retval' = [box |-> crop_box(arg[1], arg[2]),
                      outcome |-> outcome,
                      size |-> IF outcome = "resized"
                               THEN <<target_width, target_height>> ELSE <<>>]
    /\ pc' = "done"
    /\ UNCHANGED <<prog, cards, p, idx, ops, arg>>
    /\ UNCHANGED <<wrapVars, tagVars, envVars, cardVars, aiVars, batchVars>>

ImageSizes == (1..MaxDim) \X (1..MaxDim)

\* every variable that no helper of the image generator uses
NoOther ==
    /\ cards = <<>> /\ p = 0 /\ idx = 0 /\ ops = <<>>
    /\ bad_rec = -1 /\ fails = 0 /\ error = "none"
    /\ text = <<>> /\ max_width = 0 /\ font_size = 0
    /\ words = <<>> /\ line = <<>> /\ lines = <<>> /\ drawn = <<>>
    /\ name = <<>> /\ role = <<>> /\ tagline = <<>>
    /\ max_font_size = 0 /\ text_ops = <<>>
    /\ card = <<>> /\ origin = <<0, 0>> /\ img_ok = TRUE
    /\ card_index = 0 /\ card_ops = <<>>
    /\ ai_on = FALSE /\ auto = FALSE /\ exists = TRUE /\ mode = "none"
    /\ posts = 0 /\ gets = 0 /\ failure = "none" /\ ret = "pending"
    /\ enriched = "pending"
    /\ NoBatch

InitProcess ==
    /\ prog = "process"
    /\ pc = "call"
    /\ arg \in ImageSizes
    /\ retval = <<>>
    /\ NoOther

NextProcess == ProcessImage

SpecProcess == InitProcess /\ [][NextProcess]_vars

(***************************************************************************)
(* OpenAIImageGenerator.create_background_with_subject_composite: the size *)
(* and the position of the subject pasted on the generated background      *)
(***************************************************************************)
\* background_image.size: generate_card_background returns what
\* _process_image_for_card resized
bg_width == target_width
bg_height == target_height

\* int(bg_height * 0.65)
target_subject_height == (bg_height * 65) \div 100

\* int(v * scale_factor) with scale_factor = target_subject_height /
\* subj_height, a float: when the exact product is an integer and the factor
\* is not, the rounded product may fall just below it
scaled(v, subj_height) ==
    LET q == (v * target_subject_height) \div subj_height IN
    IF (v * target_subject_height) % subj_height = 0
         /\ target_subject_height % subj_height # 0
    THEN {q - 1, q}
    ELSE {q}

\* max(0, min(v, bg - size))
clamp(v, size, bg) == Max(0, Min(v, bg - size))

\* paste_x, paste_y after the clamping
paste_xy(new_subj_width, new_subj_height) ==
    LET paste_x == (bg_width * 4) \div 10 - new_subj_width \div 2
        paste_y == (bg_height * 5) \div 10 - new_subj_height \div 2
    IN <<clamp(paste_x, new_subj_width, bg_width),
         clamp(paste_y, new_subj_height, bg_height)>>

\* the resize of the subject and the paste; subject_image.resize raises for
\* a size without pixels and the handler falls back to the original image
PasteSubject ==
    /\ prog = "paste"
    /\ pc = "call"
    /\ \E new_subj_width \in scaled(arg[1], arg[2]),
          new_subj_height \in scaled(arg[2], arg[2]) :
           retval' = IF new_subj_width <= 0 \/ new_subj_height <= 0
                     THEN [pasted |-> FALSE, x |-> 0, y |-> 0, w |-> 0, h |-> 0]
                     ELSE [pasted |-> TRUE,
                           x |-> paste_xy(new_subj_width, new_subj_height)[1],
                           y |-> paste_xy(new_subj_width, new_subj_height)[2],
                           w |-> new_subj_width, h |-> new_subj_height]
    /\ pc' = "done"
    /\ UNCHANGED <<prog, cards, p, idx, ops, arg>>
    /\ UNCHANGED <<wrapVars, tagVars, envVars, cardVars, aiVars, batchVars>>

InitPaste ==
    /\ prog = "paste"
    /\ pc = "call"
    /\ arg \in ImageSizes
    /\ retval = <<>>
    /\ NoOther

NextPaste == PasteSubject

SpecPaste == InitPaste /\ [][NextPaste]_vars

(***************************************************************************)
(* OpenAIImageGenerator._enhance_prompt                                    *)
(***************************************************************************)
\* the key "Attack" of type_themes
type_Attack ==
    <<"A", "t", "t", "a", "c", "k">>
theme_Attack ==
    <<"d", "y", "n", "a", "m", "i", "c", " ", "b", "a", "t", "t", "l", "e",
      "f", "i", "e", "l", "d", " ", "e", "n", "v", "i", "r", "o", "n", "m",
      "e", "n", "t", " ", "w", "i", "t", "h", " ", "e", "n", "e", "r", "g",
      "y", " ", "e", "f", "f", "e", "c", "t", "s", " ", "a", "n", "d", " ",
      "m", "o", "t", "i", "o", "n", " ", "b", "l", "u", "r">>

\* the key "Defense" of type_themes
type_Defense ==
    <<"D", "e", "f", "e", "n", "s", "e">>
theme_Defense ==
    <<"f", "o", "r", "t", "i", "f", "i", "e", "d", " ", "s", "t", "r", "o",
      "n", "g", "h", "o", "l", "d", " ", "w", "i", "t", "h", " ", "p", "r",
      "o", "t", "e", "c", "t", "i", "v", "e", " ", "b", "a", "r", "r", "i",
      "e", "r", "s", " ", "a", "n", "d", " ", "d", "e", "f", "e", "n", "s",
      "i", "v", "e", " ", "s", "t", "r", "u", "c", "t", "u", "r", "e", "s">>

\* the key "Hacker" of type_themes
type_Hacker ==
    <<"H", "a", "c", "k", "e", "r">>
theme_Hacker ==
    <<"h", "i", "g", "h", "-", "t", "e", "c", "h", " ", "c", "y", "b", "e",
      "r", "p", "u", "n", "k", " ", "e", "n", "v", "i", "r", "o", "n", "m",
      "e", "n", "t", " ", "w", "i", "t", "h", " ", "n", "e", "o", "n", " ",
      "l", "i", "g", "h", "t", "i", "n", "g", ",", " ", "s", "e", "r", "v",
      "e", "r", "s", ",", " ", "a", "n", "d", " ", "d", "i", "g", "i", "t",
      "a", "l", " ", "i", "n", "t", "e", "r", "f", "a", "c", "e", "s">>

\* the key "Burninator" of type_themes
type_Burninator ==
    <<"B", "u", "r", "n", "i", "n", "a", "t", "o", "r">>
theme_Burninator ==
    <<"m", "e", "d", "i", "e", "v", "a", "l", " ", "c", "o", "u", "n", "t",
      "r", "y", "s", "i", "d", "e", " ", "w", "i", "t", "h", " ", "w", "o",
      "o", "d", "e", "n", " ", "s", "t", "r", "u", "c", "t", "u", "r", "e",
      "s", ",", " ", "r", "o", "l", "l", "i", "n", "g", " ", "h", "i", "l",
      "l", "s", ",", " ", "a", "n", "d", " ", "d", "r", "a", "m", "a", "t",
      "i", "c", " ", "f", "i", "r", "e", " ", "e", "f", "f", "e", "c", "t",
      "s">>

\* the key "Special" of type_themes
type_Special ==
    <<"S", "p", "e", "c", "i", "a", "l">>
theme_Special ==
    <<"m", "y", "s", "t", "i", "c", "a", "l", " ", "r", "e", "a", "l", "m",
      " ", "w", "i", "t", "h", " ", "m", "a", "g", "i", "c", "a", "l", " ",
      "e", "n", "e", "r", "g", "y", ",", " ", "e", "t", "h", "e", "r", "e",
      "a", "l", " ", "l", "i", "g", "h", "t", "i", "n", "g", ",", " ", "a",
      "n", "d", " ", "o", "t", "h", "e", "r", "w", "o", "r", "l", "d", "l",
      "y", " ", "a", "t", "m", "o", "s", "p", "h", "e", "r", "e">>

\* the key "Alleged Hacker" of type_themes
type_Alleged_Hacker ==
    <<"A", "l", "l", "e", "g", "e", "d", " ", "H", "a", "c", "k", "e", "r">>
theme_Alleged_Hacker ==
    <<"S", "h", "o", "w", "s", " ", "a", " ", "s", "c", "r", "i", "p", "t",
      " ", "k", "i", "d", "d", "i", "e", " ", "r", "o", "o", "m", " ", "w",
      "i", "t", "h", " ", "q", "u", "e", "s", "t", "i", "o", "n", "a", "b",
      "l", "e", " ", "t", "e", "c", "h", " ", "a", "n", "d", " ", "s", "h",
      "a", "d", "o", "w", "y", " ", "e", "l", "e", "m", "e", "n", "t", "s">>

\* the key "Space-Human" of type_themes
type_Space_Human ==
    <<"S", "p", "a", "c", "e", "-", "H", "u", "m", "a", "n">>
theme_Space_Human ==
    <<"f", "u", "t", "u", "r", "i", "s", "t", "i", "c", " ", "s", "p", "a",
      "c", "e", " ", "s", "t", "a", "t", "i", "o", "n", " ", "i", "n", "t",
      "e", "r", "i", "o", "r", " ", "w", "i", "t", "h", " ", "a", "d", "v",
      "a", "n", "c", "e", "d", " ", "t", "e", "c", "h", "n", "o", "l", "o",
      "g", "y", " ", "a", "n", "d", " ", "c", "o", "s", "m", "i", "c", " ",
      "v", "i", "e", "w", "s">>

\* the keys of type_themes
KnownTypes == {type_Attack, type_Defense, type_Hacker, type_Burninator, type_Special,
               type_Alleged_Hacker, type_Space_Human}

\* type_themes[card_type]
type_themes(card_type) ==
    CASE card_type = type_Attack -> theme_Attack
      [] card_type = type_Defense -> theme_Defense
      [] card_type = type_Hacker -> theme_Hacker
      [] card_type = type_Burninator -> theme_Burninator
      [] card_type = type_Special -> theme_Special
      [] card_type = type_Alleged_Hacker -> theme_Alleged_Hacker
      [] card_type = type_Space_Human -> theme_Space_Human
      [] OTHER -> <<>>

\* the text before the title in f"themed around '{card_title}'"
themed_around ==
    <<"t", "h", "e", "m", "e", "d", " ", "a", "r", "o", "u", "n", "d", " ",
      "'">>
\* ', '.join(style_additions)
style_additions ==
    <<"t", "r", "a", "d", "i", "n", "g", " ", "c", "a", "r", "d", " ", "b",
      "a", "c", "k", "g", "r", "o", "u", "n", "d", ",", " ", "e", "d", "g",
      "e", " ", "t", "o", " ", "e", "d", "g", "e", ",", " ", "n", "o", " ",
      "c", "h", "a", "r", "a", "c", "t", "e", "r", "s">>
comma == <<",", " ">>
dots == <<".", ".", ".">>

\* the list enhancements
enhancements(card_title, card_type) ==
    (IF card_title # <<>> THEN <<(themed_around \o card_title) \o <<"'">> >> ELSE <<>>)
    \o (IF card_type # <<>> /\ card_type \in KnownTypes
        THEN <<type_themes(card_type)>> ELSE <<>>)

\* ', '.join(enhancements[:1]) appended after a comma, if there is any
first_enhancement(card_title, card_type) ==
    LET e == enhancements(card_title, card_type) IN
    IF e # <<>> THEN comma \o e[1] ELSE <<>>

\* the prompt before the length limit is applied
enhanced_prompt(base_prompt, card_title, card_type) ==
    ((base_prompt \o first_enhancement(card_title, card_type)) \o comma) \o style_additions

truncated_late(prompt) == SubSeq(prompt, 1, 400) \o dots

\* enhanced_prompt[:397] + "..."
truncated(prompt) == SubSeq(prompt, 1, 397) \o dots

EnhancePrompt ==
    /\ prog = "prompt"
    /\ pc = "call"
    /\ LET full == enhanced_prompt(arg[1], arg[2], arg[3]) IN
       retval' = IF Len(full) > 400
                 THEN [prompt |-> truncated(full), shortened |-> TRUE]
                 ELSE [prompt |-> full, shortened |-> FALSE]
    /\ pc' = "done"
    /\ UNCHANGED <<prog, cards, p, idx, ops, arg>>
    /\ UNCHANGED <<wrapVars, tagVars, envVars, cardVars, aiVars, batchVars>>

BasePrompts == {[k \in 1..n |-> "p"] : n \in 0..MaxPrompt}
PromptTitles == {<<>>, <<"T">>, <<"M", "y", " ", "C", "a", "r", "d">>}
PromptTypes == {<<>>, <<"X">>, type_Attack, type_Hacker, type_Burninator}

InitPrompt ==
    /\ prog = "prompt"
    /\ pc = "call"
    /\ arg \in BasePrompts \X PromptTitles \X PromptTypes
    /\ retval = <<>>
    /\ NoOther

NextPrompt == EnhancePrompt

SpecPrompt == InitPrompt /\ [][NextPrompt]_vars

(***************************************************************************)
(* generate_ai_cards: the enrichment of one card and the rendering of its  *)
(* front, with OpenAIImageGenerator.generate_card_background,              *)
(* modify_existing_artwork and create_composite_background                 *)
(***************************************************************************)
\* the exceptions the handlers of an enrichment call catch: both
\* generate_card_background (RequestException, then Exception) and
\* modify_existing_artwork (Exception) catch every failure of their try block
Caught_request_only(step) == step \in {"network", "download"}
Caught(step) == TRUE

\* a step of the try block failed: the handler returns None, or the
\* exception leaves the call
Fail(step) ==
    /\ failure' = step
    /\ IF Caught(step)
       THEN ret' = "null" /\ pc' = "returned" /\ error' = error
       ELSE ret' = ret /\ pc' = "raised" /\ error' = step

\* card.get('img', None) is truthy
existing_image == get(card, "img", <<>>) # <<>>

\* Image.open of the card's own image succeeds
OpenOK == exists /\ img_ok

\* the loop body of generate_ai_cards up to the enrichment call
AIDispatch ==
    /\ prog = "ai"
    /\ pc = "ai_start"
    /\ IF ~ai_on \/ ("ai_prompt" \notin DOMAIN card /\ ~auto)
       THEN mode' = "skip" /\ pc' = "call"
       ELSE IF "modify_prompt" \in DOMAIN card /\ existing_image
       THEN mode' = "modify" /\ pc' = "open"
       ELSE IF existing_image /\ exists
       THEN mode' = "composite" /\ pc' = "open"
       ELSE mode' = "generate" /\ pc' = "post"
    /\ UNCHANGED <<prog, cards, p, idx, ops, cardVars, envVars>>
    /\ UNCHANGED <<ai_on, auto, exists, posts, gets, failure, ret, enriched>>
    /\ UNCHANGED <<wrapVars, tagVars, batchVars, helperVars>>

\* Image.open of the existing image: the first statement of the try block of
\* modify_existing_artwork and of create_background_with_subject_composite
AIOpen ==
    /\ prog = "ai"
    /\ pc = "open"
    /\ IF OpenOK
       THEN pc' = "post" /\ UNCHANGED <<failure, ret, error>>
       ELSE IF mode = "modify"
       THEN Fail("open")
       ELSE failure' = "open" /\ pc' = "returned" /\ UNCHANGED <<ret, error>>
    /\ UNCHANGED <<prog, cards, p, idx, ops, cardVars, bad_rec, fails>>
    /\ UNCHANGED <<ai_on, auto, exists, mode, posts, gets, enriched>>
    /\ UNCHANGED <<wrapVars, tagVars, batchVars, helperVars>>

\* what requests.post and the reading of its response can come to
PostOutcomes == {"ok", "status", "network", "json"}

\* requests.post to images/generations or images/edits and the reading of
\* the response, up to image_url
AIPost ==
    /\ prog = "ai"
    /\ pc = "post"
    /\ posts' = posts + 1
    /\ \E outcome \in PostOutcomes :
           IF outcome = "ok"
           THEN pc' = "download" /\ UNCHANGED <<failure, ret, error>>
           ELSE Fail(outcome)
    /\ UNCHANGED <<prog, cards, p, idx, ops, cardVars, bad_rec, fails>>
    /\ UNCHANGED <<ai_on, auto, exists, mode, gets, enriched>>
    /\ UNCHANGED <<wrapVars, tagVars, batchVars, helperVars>>

\* what requests.get of image_url and Image.open of its content can come to
GetOutcomes == {"ok", "download", "decode"}

\* requests.get(image_url), raise_for_status, Image.open and the return
AIDownload ==
    /\ prog = "ai"
    /\ pc = "download"
    /\ gets' = gets + 1
    /\ \E outcome \in GetOutcomes :
           IF outcome = "ok"
           THEN ret' = "image" /\ pc' = "returned" /\ UNCHANGED <<failure, error>>
           ELSE Fail(outcome)
    /\ UNCHANGED <<prog, cards, p, idx, ops, cardVars, bad_rec, fails>>
    /\ UNCHANGED <<ai_on, auto, exists, mode, posts, enriched>>
    /\ UNCHANGED <<wrapVars, tagVars, batchVars, helperVars>>

\* POST requests sent by _process_existing_image and _create_simple_background
fallback_posts_again(m) == 1
fallback_posts(m) == 0

Enrichment_unguarded ==
    IF mode = "composite" THEN (IF OpenOK THEN "image" ELSE "null") ELSE ret

\* what create_composite_background or modify_existing_artwork hands to
\* generate_ai_cards: _process_existing_image gives the processed original
\* when it opens, None when it does not; _create_simple_background always
\* gives an image
Enrichment ==
    IF mode = "modify" THEN ret
    ELSE IF mode = "composite" THEN (IF OpenOK THEN "image" ELSE "null")
    ELSE "image"

\* type_colors.get(card_type, "#2F2F2F")
type_colors(card_type) ==
    CASE card_type = type_Attack -> "#8B0000"
      [] card_type = type_Defense -> "#000080"
      [] card_type = type_Hacker -> "#006400"
      [] card_type = type_Burninator -> "#FF4500"
      [] card_type = type_Special -> "#4B0082"
      [] card_type = type_Alleged_Hacker -> "#2F4F4F"
      [] card_type = type_Space_Human -> "#191970"
      [] OTHER -> "#2F2F2F"

\* Image.new('RGB', (1500, 900), bg_color) of _create_simple_background
simple_background(card_type) ==
    [kind |-> "simple", size |-> <<1500, 900>>, color |-> type_colors(card_type)]

\* an image that went through _process_image_for_card
processed_image(kind) ==
    [kind |-> kind, size |-> <<target_width, target_height>>, color |-> "none"]

\* the image object handed to generate_ai_cards, <<>> for None
EnrichmentImage ==
    IF Enrichment # "image" THEN <<>>
    ELSE IF mode = "modify" THEN processed_image("modified")
    ELSE IF mode = "composite"
    THEN (IF ret = "image" THEN processed_image("composite")
          ELSE processed_image("original"))
    ELSE IF ret = "image" THEN processed_image("generated")
    ELSE simple_background(get(card, "type", <<>>))

card_copy_blank(c, result) ==
    [k \in DOMAIN c \cup {"img"} |-> IF k = "img" THEN <<>> ELSE c[k]]

\* card_copy as appended to processed_cards: card_copy['img'] = image_path
\* when the enrichment gave an image, the copy of the card when it did not
card_copy(c, result) ==
    IF result = "image"
    THEN [k \in DOMAIN c \cup {"img"} |-> IF k = "img" THEN saved_path ELSE c[k]]
    ELSE c

\* the fallbacks of the composite paths, then generate_ai_cards stores the
\* result in the card; the card is then ready for print_trading_cards_ai
AIReturn ==
    /\ prog = "ai"
    /\ pc = "returned"
    /\ enriched' = Enrichment
    /\ posts' = IF mode # "modify" /\ ret # "image"
                THEN posts + fallback_posts(mode) ELSE posts
    /\ retval' = EnrichmentImage
    /\ card' = card_copy(card, Enrichment)
    /\ pc' = "call"
    /\ UNCHANGED <<prog, cards, p, idx, ops, origin, img_ok, card_index, card_ops>>
    /\ UNCHANGED <<ai_on, auto, exists, mode, gets, failure, ret, arg>>
    /\ UNCHANGED <<wrapVars, tagVars, envVars, batchVars>>

AIKeys == {"title", "type", "img", "alt", "ai_prompt", "modify_prompt"}
FullAICards == [title : {<<"m">>}, type : {<<"i">>, type_Attack}, img : ImagePaths, alt : {<<"i", "m">>},
                ai_prompt : {<<"m">>}, modify_prompt : {<<"i">>}]

\* card records of the YAML file: every key may be missing
AICardRecords == {[k \in D |-> f[k]] : f \in FullAICards, D \in SUBSET AIKeys}

InitAI ==
    /\ prog = "ai"
    /\ pc = "ai_start"
    /\ card \in AICardRecords
    /\ origin = <<cu(get_xy(0)[1]), cu(get_xy(0)[2])>>
    /\ img_ok \in BOOLEAN /\ exists \in BOOLEAN /\ (img_ok => exists)
    /\ ai_on \in BOOLEAN /\ auto \in BOOLEAN
    /\ card_index = 0 /\ card_ops = <<>>
    /\ mode = "none" /\ posts = 0 /\ gets = 0 /\ failure = "none"
    /\ ret = "pending" /\ enriched = "pending"
    /\ NoBatch /\ NoHelper
    /\ cards = <<>> /\ p = 0 /\ idx = 0 /\ ops = <<>>
    /\ bad_rec = -1 /\ fails = 0 /\ error = "none"
    /\ text = <<>> /\ max_width = 0 /\ font_size = 0
    /\ words = <<>> /\ line = <<>> /\ lines = <<>> /\ drawn = <<>>
    /\ name = <<>> /\ role = <<>> /\ tagline = <<>>
    /\ max_font_size = 0 /\ text_ops = <<>>

NextAI ==
    \/ AIDispatch
    \/ AIOpen
    \/ AIPost
    \/ AIDownload
    \/ AIReturn
    \/ CardHead
    \/ CardImage
    \/ CardTail

SpecAI == InitAI /\ [][NextAI]_vars

(***************************************************************************)
(* generate_ai_cards: the loop over the input list.  The enrichment of a   *)
(* card is taken as one step whose outcome is one of those the steps of    *)
(* SpecAI can come to.                                                     *)
(***************************************************************************)
ItemMode_flag_only(c) ==
    IF disable_ai THEN "skip"
    ELSE IF "ai_prompt" \notin DOMAIN c /\ ~auto THEN "skip"
    ELSE IF "modify_prompt" \in DOMAIN c /\ get(c, "img", <<>>) # <<>> THEN "modify"
    ELSE IF get(c, "img", <<>>) # <<>> /\ exists THEN "composite"
    ELSE "generate"

\* the branch the loop body takes for a card
ItemMode(c) ==
    IF disable_ai \/ ~ai_on THEN "skip"
    ELSE IF "ai_prompt" \notin DOMAIN c /\ ~auto THEN "skip"
    ELSE IF "modify_prompt" \in DOMAIN c /\ get(c, "img", <<>>) # <<>> THEN "modify"
    ELSE IF get(c, "img", <<>>) # <<>> /\ exists THEN "composite"
    ELSE "generate"

\* what modified_image / composite_image can be: an image or None
ItemOutcomes(m) ==
    CASE m = "skip" -> {"skip"}
      [] m = "modify" -> IF OpenOK THEN {"image", "null"} ELSE {"null"}
      [] m = "composite" -> IF OpenOK THEN {"image"} ELSE {"null"}
      [] OTHER -> {"image"}

\* POST requests the enrichment of one card sends
ItemPosts(m) ==
    IF m = "skip" THEN 0
    ELSE IF m = "generate" THEN 1
    ELSE IF OpenOK THEN 1 ELSE 0

input_after_aliased(data, i, outcome) ==
    [data EXCEPT ![i] = card_copy(data[i], outcome)]

\* the input list after an iteration: card_copy = card.copy(), so the write
\* of card_copy['img'] does not reach the input record
input_after(data, i, outcome) == data

\* one iteration of the for loop
BatchItem ==
    /\ prog = "batch"
    /\ pc = "loop"
    /\ idx < Len(cards_data)
    /\ LET c == cards_data[idx + 1]
           m == ItemMode(c)
       IN /\ \E outcome \in ItemOutcomes(m) :
                 /\ processed_cards' = Append(processed_cards, card_copy(c, outcome))
                 /\ results' = Append(results, outcome)
                 /\ saves' = IF outcome = "image" THEN saves + 1 ELSE saves
                 /\ cards_data' = input_after(cards_data, idx + 1, outcome)
          /\ posts' = posts + ItemPosts(m)
    /\ idx' = idx + 1
    /\ UNCHANGED <<prog, cards, pc, p, ops, disable_ai, api_key>>
    /\ UNCHANGED <<ai_on, auto, exists, mode, gets, failure, ret, enriched>>
    /\ UNCHANGED <<wrapVars, tagVars, envVars, cardVars, helperVars>>

\* print_trading_cards_ai(output_filename, processed_cards, logo_path)
BatchPrint ==
    /\ prog = "batch"
    /\ pc = "loop"
    /\ idx = Len(cards_data)
    /\ cards' = processed_cards
    /\ pc' = "done"
    /\ UNCHANGED <<prog, p, idx, ops>>
    /\ UNCHANGED <<wrapVars, tagVars, envVars, cardVars, aiVars, batchVars, helperVars>>

BatchKeys == {"img", "ai_prompt", "modify_prompt"}
FullBatchCards == [title : {<<"m">>}, img : ImagePaths, ai_prompt : {<<"m">>},
                   modify_prompt : {<<"i">>}]

\* card records with a title; every other key may be missing
BatchCards == {[k \in D \cup {"title"} |-> f[k]] : f \in FullBatchCards, D \in SUBSET BatchKeys}
CardLists == UNION {[1..n -> BatchCards] : n \in 0..MaxBatch}

InitBatch ==
    /\ prog = "batch"
    /\ pc = "loop"
    /\ cards_data \in CardLists
    /\ disable_ai \in BOOLEAN /\ api_key \in BOOLEAN /\ auto \in BOOLEAN
    /\ ai_on = (~disable_ai /\ api_key)
    /\ img_ok \in BOOLEAN /\ exists \in BOOLEAN /\ (img_ok => exists)
    /\ processed_cards = <<>> /\ results = <<>> /\ saves = 0
    /\ idx = 0 /\ posts = 0
    /\ cards = <<>> /\ p = 0 /\ ops = <<>>
    /\ bad_rec = -1 /\ fails = 0 /\ error = "none"
    /\ text = <<>> /\ max_width = 0 /\ font_size = 0
    /\ words = <<>> /\ line = <<>> /\ lines = <<>> /\ drawn = <<>>
    /\ name = <<>> /\ role = <<>> /\ tagline = <<>>
    /\ max_font_size = 0 /\ text_ops = <<>>
    /\ card = <<>> /\ origin = <<0, 0>> /\ card_index = 0 /\ card_ops = <<>>
    /\ mode = "none" /\ gets = 0 /\ failure = "none" /\ ret = "pending"
    /\ enriched = "pending"
    /\ NoHelper

NextBatch ==
    \/ BatchItem
    \/ BatchPrint

SpecBatch == InitBatch /\ [][NextBatch]_vars

(***************************************************************************)
(* create_nametags                                                         *)
(***************************************************************************)
x_positions == [i \in 1..num_columns |->
                    margin + (i - 1) * (nametag_width + horizontal_gap)]
y_positions == [i \in 1..num_rows |->
                    letter[2] - margin - ((i - 1) + 1) * nametag_height]

nametag_xy(index) ==
    <<x_positions[(index % num_columns) + 1],
      y_positions[((index \div num_columns) % num_rows) + 1]>>

PageFull_precedence(index) == (index % num_columns) * num_rows = 0

\* whether create_nametags calls showPage after the nametag that made index
PageFull(index) == index % (num_columns * num_rows) = 0

\* one iteration of the for loop: draw_nametag, index += 1, showPage on a full page
TagDraw ==
    /\ prog = "nametags"
    /\ pc = "loop"
    /\ idx < Len(cards)
    /\ cards[idx + 1] # bad_rec
    /\ idx' = idx + 1
    /\ ops' = LET d == Append(ops, DrawOp("nametag", cards[idx + 1], idx,
                                          nametag_xy(idx), "image", <<>>))
              IN IF PageFull(idx + 1) THEN Append(d, ShowPageOp) ELSE d
    /\ UNCHANGED <<prog, cards, pc, p>>
    /\ UNCHANGED <<wrapVars, tagVars, envVars, otherVars>>

\* after the loop: the last page if not complete, then c.save()
TagFinish ==
    /\ prog = "nametags"
    /\ pc = "loop"
    /\ idx >= Len(cards)
    /\ ops' = LET d == IF ~PageFull(idx) THEN Append(ops, ShowPageOp) ELSE ops
              IN Append(d, SaveOp)
    /\ pc' = "done"
    /\ UNCHANGED <<prog, cards, p, idx>>
    /\ UNCHANGED <<wrapVars, tagVars, envVars, otherVars>>

(***************************************************************************)
(* The tilers as one specification                                         *)
(***************************************************************************)
NoWrap ==
    /\ text = <<>> /\ max_width = 0 /\ font_size = 0
    /\ words = <<>> /\ line = <<>> /\ lines = <<>> /\ drawn = <<>>

NoTag ==
    /\ name = <<>> /\ role = <<>> /\ tagline = <<>>
    /\ max_font_size = 0 /\ text_ops = <<>>

NoCard ==
    /\ card = <<>> /\ origin = <<0, 0>> /\ img_ok = TRUE
    /\ card_index = 0 /\ card_ops = <<>>
    /\ ai_on = FALSE /\ auto = FALSE /\ exists = TRUE /\ mode = "none"
    /\ posts = 0 /\ gets = 0 /\ failure = "none" /\ ret = "pending"
    /\ enriched = "pending"
    /\ NoBatch /\ NoHelper

Init ==
    /\ prog \in {"cards", "cards_ai", "nametags"}
    /\ \E n \in 0..MaxCards : cards = [i \in 1..n |-> i - 1]
    /\ pc = IF prog = "nametags" THEN "loop" ELSE "front"
    /\ p = 0
    /\ idx = 0
    /\ ops = <<>>
    /\ bad_rec \in {-1} \cup {cards[i] : i \in DOMAIN cards}
    /\ fails = 0
    /\ error = "none"
    /\ NoWrap
    /\ NoTag
    /\ NoCard

Next ==
    \/ FrontDraw
    \/ FrontShowPage
    \/ FrontExit
    \/ BackDraw
    \/ BackShowPage
    \/ CardsSave
    \/ TagDraw
    \/ TagFinish
    \/ UnitRaise

Spec == Init /\ [][Next]_vars

(***************************************************************************)
(* Reading the recorded canvas calls                                       *)
(***************************************************************************)
Ceil(a, b) == (a + b - 1) \div b

Draws(kind) == {k \in DOMAIN ops : ops[k].op = kind}
ShowPages == {k \in DOMAIN ops : ops[k].op = "showPage"}

\* 0-based number of the page the k-th call lands on
PageOf(k) == Cardinality({j \in 1..(k - 1) : ops[j].op = "showPage"})

PagesWith(kind) == {PageOf(k) : k \in Draws(kind)}
DrawsOn(kind, page) == {k \in Draws(kind) : PageOf(k) = page}

IsCards == prog \in {"cards", "cards_ai"}

(***************************************************************************)
(* Claims about the tilers                                                 *)
(***************************************************************************)

\* C1: a finished run over n cards has emitted ceil(n/9) front pages and
\* ceil(n/9) back pages, 2*ceil(n/9) pages in all, and every draw lies on an
\* emitted page; 10 cards give front pages of 9 and 1 cards and back pages of
\* 9 and 1 cards.
C1_PageCount ==
    (IsCards /\ pc = "done") =>
        LET n == Len(cards) IN
        /\ Cardinality(PagesWith("front")) = Ceil(n, 9)
        /\ Cardinality(PagesWith("back")) = Ceil(n, 9)
        /\ PagesWith("front") \cap PagesWith("back") = {}
        /\ Cardinality(ShowPages) = 2 * Ceil(n, 9)
        /\ \A k \in Draws("front") \cup Draws("back") : PageOf(k) < Cardinality(ShowPages)
        /\ n = 10 =>
            /\ Cardinality(DrawsOn("front", 0)) = 9
            /\ Cardinality(DrawsOn("front", 1)) = 1
            /\ Cardinality(DrawsOn("back", 2)) = 9
            /\ Cardinality(DrawsOn("back", 3)) = 1

C1_Witness ==
    /\ prog = "cards" /\ pc = "done" /\ Len(cards) = 10
    /\ Cardinality(ShowPages) = 4

\* C2: no front draw follows a back draw, a back draw is issued only when all
\* fronts are drawn and the page of the last front is closed by showPage, and
\* save is the last call, issued right after a showPage (or on an empty run).
C2_FrontsBeforeBacks ==
    IsCards =>
        /\ \A j, k \in DOMAIN ops :
              (j < k /\ ops[j].op = "back") => ops[k].op # "front"
        /\ \A k \in Draws("back") :
              /\ Cardinality({j \in Draws("front") : j < k}) = Len(cards)
              /\ \A j \in Draws("front") :
                    \E m \in ShowPages : j < m /\ m < k
        /\ \A k \in Draws("save") :
              /\ k = Len(ops)
              /\ pc = "done"
              /\ Draws("back") # {} => ops[k - 1].op = "showPage"
              /\ Cardinality(Draws("back")) = Len(cards)

C2_Witness ==
    /\ prog = "cards_ai" /\ pc = "done" /\ Len(cards) = 12
    /\ Draws("front") # {} /\ Draws("back") # {} /\ Draws("save") # {}

\* C3: no card is ever drawn twice on a face; each draw of card i lies in
\* slot i mod 9 on page i div 9 of its stack; at the end of the run every card
\* has one front and one back draw, at the same coordinate.
C3_OneFrontOneBack ==
    IsCards =>
        LET n == Len(cards)
            front(i) == {k \in Draws("front") : ops[k].card = i}
            back(i) == {k \in Draws("back") : ops[k].card = i}
        IN \A i \in 0..(n - 1) :
            /\ Cardinality(front(i)) <= 1
            /\ Cardinality(back(i)) <= 1
            /\ \A k \in front(i) :
                  ops[k].slot = i % 9 /\ PageOf(k) = i \div 9
            /\ \A k \in back(i) :
                  ops[k].slot = i % 9 /\ PageOf(k) = Ceil(n, 9) + (i \div 9)
            /\ \A k \in front(i), m \in back(i) :
                  ops[k].x = ops[m].x /\ ops[k].y = ops[m].y
            /\ pc = "done" => (Cardinality(front(i)) = 1 /\ Cardinality(back(i)) = 1)

C3_Witness ==
    /\ prog = "cards" /\ pc = "done" /\ Len(cards) = 19
    /\ \E k \in Draws("back") : ops[k].card = 18 /\ ops[k].slot = 0 /\ PageOf(k) = 5

\* C4: every card is drawn at x = left + (s mod 3)*(CARD_WIDTH + gap) and
\* y = page_height - top - ((s div 3) + 1)*CARD_HEIGHT - (s div 3)*gap for its
\* slot s in 0..8; every nametag is drawn by the same formula with 2 columns,
\* 3 rows, gap 0 and a margin of 5 mm.
C4_GridFormula ==
    /\ \A k \in Draws("front") \cup Draws("back") :
          LET s == ops[k].slot IN
          /\ s \in 0..8
          /\ ops[k].x = left + (s % 3) * (CARD_WIDTH + gap)
          /\ ops[k].y = 792 * pt - top - ((s \div 3) + 1) * CARD_HEIGHT - (s \div 3) * gap
    /\ \A k \in Draws("nametag") :
          LET s == ops[k].slot
              col == s % 2
              row == (s \div 2) % 3
          IN /\ ops[k].x = 5 * mm + col * (nametag_width + 0)
             /\ ops[k].y = 792 * pt - 5 * mm - (row + 1) * nametag_height - row * 0

C4_Witness ==
    /\ \E k \in Draws("back") :
          /\ prog = "cards" /\ ops[k].slot = 5
          /\ ops[k].x = left + 2 * (CARD_WIDTH + gap)
          /\ ops[k].y = 252 * pt
    /\ pc = "done"

C4_WitnessNametag ==
    \E k \in Draws("nametag") :
        /\ ops[k].slot = 11
        /\ ops[k].x = 5 * mm + nametag_width
        /\ ops[k].y = 792 * pt - 5 * mm - 3 * nametag_height

\* C5: nametag i is drawn at column i mod 2 and row (i div 2) mod 3, on page
\* i div 6; showPage follows immediately after every 6th nametag, every
\* showPage directly follows a nametag, and a finished run over n nametags has
\* emitted exactly ceil(n/6) pages.
C5_NametagPages ==
    prog = "nametags" =>
        /\ \A k \in Draws("nametag") :
              LET i == ops[k].card IN
              /\ ops[k].x = x_positions[(i % 2) + 1]
              /\ ops[k].y = y_positions[((i \div 2) % 3) + 1]
              /\ PageOf(k) = i \div 6
              /\ (i + 1) % 6 = 0 => (k < Len(ops) /\ ops[k + 1].op = "showPage")
        /\ \A k \in ShowPages : k > 1 /\ ops[k - 1].op = "nametag"
        /\ pc = "done" =>
              /\ Cardinality(ShowPages) = Ceil(Len(cards), 6)
              /\ Cardinality(Draws("nametag")) = Len(cards)
              /\ \A k \in Draws("nametag") : PageOf(k) < Cardinality(ShowPages)

C5_Witness ==
    /\ prog = "nametags" /\ pc = "done" /\ Len(cards) = 13
    /\ Cardinality(ShowPages) = 3

C5_WitnessFull ==
    /\ prog = "nametags" /\ pc = "done" /\ Len(cards) = 12
    /\ Cardinality(ShowPages) = 2


(***************************************************************************)
(* Claims about draw_multiline_text                                        *)
(***************************************************************************)
RECURSIVE WordsOf(_)
\* the words of a sequence of lines, in line order
WordsOf(ls) == IF ls = <<>> THEN <<>> ELSE split(Head(ls)) \o WordsOf(Tail(ls))

TooWide(s) == stringWidth(s, font_size) > max_width
WrapDone == prog = "wrap" /\ pc = "done"

\* C7: every drawn line is at most max_width wide unless it is one single
\* word wider than max_width, and a line ends only where the next word would
\* have made it wider than max_width.
C7_LinesFit ==
    WrapDone =>
        /\ \A j \in DOMAIN drawn :
              \/ ~TooWide(drawn[j])
              \/ Len(split(drawn[j])) = 1 /\ TooWide(split(drawn[j])[1])
        /\ \A j \in DOMAIN drawn :
              (j < Len(drawn) /\ split(drawn[j + 1]) # <<>>) =>
                  TooWide(join(Append(split(drawn[j]), Head(split(drawn[j + 1])))))

C7_Witness ==
    /\ WrapDone
    /\ Len(drawn) = 2
    /\ \A j \in DOMAIN drawn : drawn[j] # <<>> /\ ~TooWide(drawn[j])
    /\ Len(split(drawn[1])) = 2

\* C8: a text whose words joined by single spaces are wider than max_width
\* is drawn on at least 2 lines.
C8_LongTextWraps ==
    (WrapDone /\ TooWide(join(split(text)))) => Len(drawn) >= 2

C8_Witness ==
    /\ WrapDone
    /\ TooWide(join(split(text)))
    /\ \A w \in DOMAIN split(text) : ~TooWide(split(text)[w])
    /\ Len(drawn) = 2

\* C9: the words of the lines built so far, then of the current line, then
\* the words still to visit are the words of the text; at the end the words
\* of the drawn lines, in line order, are exactly text.split().
C9_WordsPreserved ==
    /\ (prog = "wrap" /\ pc = "loop") =>
          WordsOf(lines) \o line \o words = split(text)
    /\ WrapDone => WordsOf(drawn) = split(text)

C9_Witness ==
    /\ WrapDone
    /\ Len(drawn) >= 3
    /\ Len(split(text)) >= 3
    /\ Len(text) > Len(join(split(text)))
    /\ \E i, j \in DOMAIN split(text) : split(text)[i] # split(text)[j]

\* C10: the drawn lines that are wider than max_width are exactly the words
\* of the text that are wider than max_width, each whole and alone on its
\* line, in text order; the other words are wrapped in their order on lines
\* that fit.
C10_WideWordAlone ==
    WrapDone =>
        /\ SelectSeq(drawn, TooWide) = SelectSeq(split(text), TooWide)
        /\ \A j \in DOMAIN drawn :
              (\E w \in DOMAIN split(drawn[j]) : TooWide(split(drawn[j])[w]))
                  => drawn[j] = split(drawn[j])[1]
        /\ LET Fits(s) == ~TooWide(s)
           IN WordsOf(SelectSeq(drawn, Fits)) = SelectSeq(split(text), Fits)

C10_Witness ==
    /\ WrapDone
    /\ Len(split(text)) = 3
    /\ ~TooWide(split(text)[1]) /\ TooWide(split(text)[2]) /\ ~TooWide(split(text)[3])
    /\ drawn = split(text)

C10_WitnessFirst ==
    /\ WrapDone
    /\ Len(split(text)) = 2
    /\ TooWide(split(text)[1]) /\ ~TooWide(split(text)[2])
    /\ drawn = <<<<>>>> \o split(text)

C10_WitnessLast ==
    /\ WrapDone
    /\ Len(split(text)) = 2
    /\ ~TooWide(split(text)[1]) /\ TooWide(split(text)[2])
    /\ drawn = split(text)


(***************************************************************************)
(* Claims about draw_nametag                                               *)
(***************************************************************************)
\* the sizes passed to setFont while the field is fitted, in order
RECURSIVE SizesOf(_, _)
SizesOf(log, field) ==
    IF log = <<>> THEN <<>>
    ELSE (IF Head(log).op = "setFont" /\ Head(log).field = field
          THEN <<Head(log).size>> ELSE <<>>) \o SizesOf(Tail(log), field)

FitsBox(t, size) == stringWidth(t, size) <= (34 * inch) \div 10 - 10 * mm

\* size is the largest of lo..hi at which t fits, or lo if none fits
LargestFit(t, size, lo, hi) ==
    /\ size \in lo..hi
    /\ IF \E s \in lo..hi : FitsBox(t, s)
       THEN FitsBox(t, size) /\ \A s \in (size + 1)..hi : ~FitsBox(t, s)
       ELSE size = lo

\* the search starts at hi, goes down by 1 per step and stays in lo..hi
SearchSteps(sizes, lo, hi) ==
    sizes # <<>> =>
        /\ sizes[1] = hi
        /\ \A j \in DOMAIN sizes : sizes[j] \in lo..hi
        /\ \A j \in 1..(Len(sizes) - 1) : sizes[j + 1] = sizes[j] - 1

\* C6: the font search of the name (16..22) and of the tagline (12..16) starts
\* at the maximum, goes down by exactly 1 per step within the range, and the
\* size the text is drawn at is the largest size of the range at which it is
\* no wider than 3.4 in - 10 mm, or the minimum of the range if none fits.
C6_LargestFittingSize ==
    prog = "nametag" =>
        LET ns == SizesOf(text_ops, "name")
            ts == SizesOf(text_ops, "tagline")
        IN /\ SearchSteps(ns, 16, 22)
           /\ SearchSteps(ts, 12, 16)
           /\ pc \in {"tagline_fit", "done"} =>
                 /\ LargestFit(name, ns[Len(ns)], 16, 22)
                 /\ \A k \in DOMAIN text_ops :
                       (text_ops[k].op = "drawString" /\ text_ops[k].field = "name")
                           => text_ops[k].size = ns[Len(ns)]
           /\ pc = "done" =>
                 /\ LargestFit(tagline, ts[Len(ts)], 12, 16)
                 /\ \E k \in DOMAIN text_ops :
                       /\ text_ops[k].op = "drawString"
                       /\ text_ops[k].field = "tagline"
                       /\ text_ops[k].text = tagline
                       /\ text_ops[k].size = ts[Len(ts)]

C6_Witness ==
    /\ prog = "nametag" /\ pc = "done"
    /\ LET ns == SizesOf(text_ops, "name")
           ts == SizesOf(text_ops, "tagline")
       IN /\ ns = <<22, 21, 20, 19>>
          /\ FitsBox(name, 19) /\ ~FitsBox(name, 20)
          /\ ts[Len(ts)] = 12
          /\ ~FitsBox(tagline, 12)


\* C11: a name that does not fit the box at any size of 16..22 is drawn by
\* draw_multiline_text at size 16, and a role wider than the box at size 14
\* is drawn by draw_multiline_text, never as one overflowing line.
C11_WrapWhenTooWide ==
    (prog = "nametag" /\ pc = "done") =>
        /\ ~FitsBox(name, 16) =>
              \A k \in DOMAIN text_ops :
                  (text_ops[k].op = "drawString" /\ text_ops[k].field = "name")
                      => (text_ops[k].via = "multiline" /\ text_ops[k].size = 16)
        /\ ~FitsBox(role, 14) =>
              \A k \in DOMAIN text_ops :
                  (text_ops[k].op = "drawString" /\ text_ops[k].field = "role")
                      => text_ops[k].via = "multiline"


(***************************************************************************)
(* Claims about errors in the tilers                                       *)
(***************************************************************************)
IsTiler == prog \in {"cards", "cards_ai", "nametags"}

\* C14: in every tiler an image that cannot be drawn is recovered inside the
\* unit's render call: no run is ever left by an exception about an image.
C14_ImageFailureRecovered ==
    IsTiler => error # "image"

\* C16: once a draw call has raised out of a unit render the run is over:
\* the tiler is left by the exception, save is not among the calls issued,
\* and no call is issued on the canvas afterwards.
C16_AbortsWholeDocument ==
    /\ [](IsTiler /\ error # "none" => pc = "raised" /\ Draws("save") = {})
    /\ [][IsTiler /\ error' # "none" => ops' = ops]_vars

C16_Witness ==
    /\ prog = "cards" /\ pc = "raised" /\ error = "draw"
    /\ Cardinality(ShowPages) = 2 /\ Cardinality(Draws("back")) = 3
    /\ Draws("save") = {}

\* C17: when the input list holds a record that cannot be read, at whatever
\* position, the run is aborted before any draw call and any showPage.
C17_InvalidRecordBeforeRendering ==
    (IsTiler /\ bad_rec # -1) => ops = <<>>


(***************************************************************************)
(* Properties of the card front renderers (SpecCard)                       *)
(***************************************************************************)
IsFront == prog \in {"front", "front_ai"}
CardDone == IsFront /\ pc = "done"

\* the calls issued so far for one element of the card, by canvas method
CardOps(part, kind) ==
    {k \in DOMAIN card_ops : card_ops[k].part = part /\ card_ops[k].op = kind}

\* the calls issued so far for one element of the card
PartOps(part) == {k \in DOMAIN card_ops : card_ops[k].part = part}

TitleCalls == {"drawString", "drawCentredString"}
ImageFails == ~DrawImageOK(get(card, "img", logo_path))

\* C12: for every card record with a non-empty title, the title text drawn
\* by draw_trading_card_front and draw_trading_card_front_ai is not wider,
\* at the font size it is drawn with, than the title box.
C12_TitleFitsBox ==
    CardDone =>
        \A b \in CardOps("title", "rect") :
            \A k \in PartOps("title") :
                (card_ops[k].op \in TitleCalls /\ card_ops[k].text # <<>>)
                    => cardStringWidth(card_ops[k].text, card_ops[k].size) <= card_ops[b].w

\* C13: when drawing the image of a card front fails, the renderer draws a
\* placeholder box labelled "IMAGE" at exactly the rectangle computed for the
\* image, no exception leaves the call, and the later parts of the card
\* (title of the AI front, alt/type box, text box, card number, detail) are
\* still drawn.
C13_PlaceholderAtImageRect ==
    (IsFront /\ pc \in {"rest", "done"} /\ ImageFails) =>
        LET r == Rect(card, origin[1], origin[2]) IN
        /\ error = "none"
        /\ CardOps("image", "drawImage") = {}
        /\ Cardinality(CardOps("image", "rect")) = 1
        /\ \A k \in CardOps("image", "rect") :
               /\ card_ops[k].x = r.x /\ card_ops[k].y = r.y
               /\ card_ops[k].w = r.w /\ card_ops[k].h = r.h
               /\ k + 1 \in CardOps("image", "drawCentredString")
               /\ card_ops[k + 1].text = IMAGE
               /\ card_ops[k + 1].x = r.x + r.w \div 2
               /\ card_ops[k + 1].y = r.y + r.h \div 2
        /\ pc = "done" =>
               /\ Cardinality(CardOps("title", "rect")) = 1
               /\ Cardinality(CardOps("text", "rect")) = 1
               /\ \A k \in CardOps("text", "rect") :
                      \A i \in CardOps("image", "rect") : i < k
               /\ get(card, "alt", <<>>) # <<>> => CardOps("alt", "rect") # {}
               /\ get(card, "action", <<>>) # <<>> => PartOps("action") # {}
               /\ get(card, "detail", <<>>) # <<>> => PartOps("detail") # {}
               /\ prog = "front_ai" => PartOps("number") # {}

C13_Witness ==
    /\ CardDone /\ prog = "front_ai" /\ ~img_ok
    /\ "img" \in DOMAIN card /\ card["img"] # <<>>
    /\ get(card, "alt", <<>>) # <<>>
    /\ \E k \in CardOps("image", "rect") : card_ops[k].w = (169 * cu(pt)) + (6 * cu(pt)) \div 10
    /\ PartOps("detail") # {}

C13_WitnessEmptyPath ==
    /\ CardDone /\ prog = "front" /\ img_ok
    /\ "img" \in DOMAIN card /\ card["img"] = <<>>
    /\ CardOps("image", "rect") # {}

\* C15: a card record whose optional fields (alt, detail, img) are missing
\* or empty renders without error and without a box for the empty field:
\* draw_trading_card_front draws the alt box iff alt is non-empty and the
\* detail text iff detail is non-empty, and draw_trading_card_front_ai draws
\* the combined type/alt box iff alt or type is non-empty.
C15_OptionalFieldsOmitted ==
    CardDone =>
        LET alt == get(card, "alt", <<>>)
            card_type == get(card, "type", <<>>)
            detail == get(card, "detail", <<>>)
        IN /\ error = "none"
           /\ prog = "front" =>
                  /\ (PartOps("alt") # {}) <=> (alt # <<>>)
                  /\ (CardOps("alt", "rect") # {}) <=> (alt # <<>>)
                  /\ (PartOps("detail") # {}) <=> (detail # <<>>)
           /\ prog = "front_ai" =>
                  /\ (CardOps("alt", "rect") # {}) <=> (alt # <<>> \/ card_type # <<>>)
                  /\ (CardOps("alt", "drawRightString") # {}) <=> (alt # <<>>)
                  /\ (CardOps("alt", "drawString") # {}) <=> (card_type # <<>>)
                  /\ (PartOps("detail") # {}) <=> (detail # <<>>)
           /\ Cardinality(CardOps("text", "rect")) = 1
           /\ Cardinality(PartOps("image")) \in {1, 2}

C15_Witness ==
    /\ CardDone /\ prog = "front"
    /\ "alt" \notin DOMAIN card /\ "img" \notin DOMAIN card
    /\ "detail" \in DOMAIN card /\ card["detail"] = <<>>
    /\ PartOps("alt") = {} /\ PartOps("detail") = {}
    /\ CardOps("image", "drawImage") # {}

C15_WitnessTypeOnly ==
    /\ CardDone /\ prog = "front_ai"
    /\ "alt" \notin DOMAIN card /\ get(card, "type", <<>>) # <<>>
    /\ CardOps("alt", "rect") # {} /\ CardOps("alt", "drawRightString") = {}

(***************************************************************************)
(* Properties of the enrichment of a card (SpecAI)                         *)
(***************************************************************************)
CallFailures == {"status", "network", "json", "download", "decode"}
Rendering == pc \in {"rest", "done"}

\* C18: generate_card_background and modify_existing_artwork return None on
\* any failure (non-200 status, network error, malformed JSON response,
\* failed download, undecodable image) and never raise to the caller; after
\* a non-200 generation response no image download is attempted.
C18_EnrichmentReturnsNone ==
    prog = "ai" =>
        /\ error = "none" /\ pc # "raised"
        /\ (failure \in CallFailures \/ (failure = "open" /\ mode = "modify"))
               => ret = "null"
        /\ ret = "image" => failure = "none" /\ posts = 1 /\ gets = 1
        /\ failure \in {"status", "network", "json"} => gets = 0

C18_Witness ==
    /\ prog = "ai" /\ pc = "done" /\ mode = "generate"
    /\ failure = "status" /\ ret = "null" /\ posts = 1 /\ gets = 0

C18_WitnessModify ==
    /\ prog = "ai" /\ pc = "done" /\ mode = "modify"
    /\ failure = "json" /\ ret = "null" /\ enriched = "null"

C18_WitnessDecode ==
    /\ prog = "ai" /\ pc = "done" /\ failure = "decode" /\ ret = "null" /\ gets = 1

\* C19 as stated: whenever the enrichment returns null for a card, the
\* renderer takes its soft-failure path and draws the placeholder box in the
\* card's image rectangle.
C19_NullDrawsPlaceholder ==
    (prog = "ai" /\ enriched = "null" /\ Rendering) =>
        /\ CardOps("image", "drawImage") = {}
        /\ \E k \in CardOps("image", "rect") :
               card_ops[k].x = Rect(card, origin[1], origin[2]).x

\* C19, amended: whenever the enrichment returns null for a card,
\* generate_ai_cards leaves the card as it was, with its own img, and the
\* renderer draws that image; the placeholder box is drawn in the card's
\* image rectangle exactly when drawing the card's own image fails.
C19_NullKeepsOriginal ==
    /\ [][(prog = "ai" /\ enriched' = "null" /\ enriched # "null") => card' = card]_vars
    /\ [](prog = "ai" /\ enriched = "null" =>
            /\ "img" \in DOMAIN card /\ card["img"] \notin {<<>>, saved_path}
            /\ Rendering =>
                   IF OpenOK
                   THEN /\ CardOps("image", "rect") = {}
                        /\ \E k \in CardOps("image", "drawImage") :
                               card_ops[k].text = card["img"]
                   ELSE /\ CardOps("image", "drawImage") = {}
                        /\ \E k \in CardOps("image", "rect") :
                               /\ card_ops[k].x = Rect(card, origin[1], origin[2]).x
                               /\ card_ops[k].y = Rect(card, origin[1], origin[2]).y)

C19_Witness ==
    /\ prog = "ai" /\ pc = "done" /\ enriched = "null" /\ mode = "modify"
    /\ failure = "status"
    /\ CardOps("image", "drawImage") # {} /\ CardOps("image", "rect") = {}

C19_WitnessPlaceholder ==
    /\ prog = "ai" /\ pc = "done" /\ enriched = "null" /\ mode = "composite"
    /\ CardOps("image", "rect") # {}

\* C20: for each card, generate_ai_cards causes at most one image
\* generation/edit POST request, whatever its outcome and whichever fallback
\* path is taken afterwards; a failed request is never issued again.
C20_AtMostOnePost ==
    /\ [](prog = "ai" => posts <= 1)
    /\ [][(prog = "ai" /\ failure # "none") => posts' = posts]_vars
    /\ [](prog = "ai" /\ failure \in CallFailures => posts = 1)

C20_Witness ==
    /\ prog = "ai" /\ pc = "done" /\ mode = "composite"
    /\ failure = "network" /\ ret = "null" /\ enriched = "image" /\ posts = 1
    /\ \E k \in CardOps("image", "drawImage") : card_ops[k].text = saved_path

C20_WitnessSimple ==
    /\ prog = "ai" /\ pc = "done" /\ mode = "generate"
    /\ failure = "status" /\ enriched = "image" /\ posts = 1

(***************************************************************************)
(* Further properties of draw_multiline_text and of the tilers             *)
(***************************************************************************)
\* C29: draw_multiline_text never draws an empty line: every drawn line
\* holds at least one word, also when the first or a later word is wider
\* than max_width; hence it draws at most as many lines as there are words.
C29_NoEmptyLine ==
    WrapDone =>
        /\ \A j \in DOMAIN drawn : split(drawn[j]) # <<>>
        /\ Len(drawn) <= Len(split(text))

\* C30: every unit rectangle placed by the three tilers lies within the US
\* Letter page: 0 <= x, x + unit_width <= 612 pt, 0 <= y and
\* y + unit_height <= 792 pt.
C30_UnitsOnPage ==
    /\ \A k \in Draws("front") \cup Draws("back") :
          /\ 0 <= ops[k].x /\ ops[k].x + CARD_WIDTH <= letter[1]
          /\ 0 <= ops[k].y /\ ops[k].y + CARD_HEIGHT <= letter[2]
    /\ \A k \in Draws("nametag") :
          /\ 0 <= ops[k].x /\ ops[k].x + nametag_width <= letter[1]
          /\ 0 <= ops[k].y /\ ops[k].y + nametag_height <= letter[2]

\* C26: in print_trading_cards_ai the number printed on the front of the card
\* at input index i is i, formatted with # and at least 3 digits; the
\* numbers are pairwise distinct and grow by 1 in input order across pages,
\* whatever slot the card occupies.
C26_CardNumberIsIndex ==
    prog = "cards_ai" =>
        /\ \A k \in Draws("front") :
              /\ cards[ops[k].card + 1] = ops[k].card
              /\ ops[k].number = card_number(ops[k].card)
              /\ Len(ops[k].number) = 4 /\ ops[k].number[1] = "#"
        /\ \A k1, k2 \in Draws("front") :
              (k1 # k2) => ops[k1].number # ops[k2].number
        /\ \A k1, k2 \in Draws("front") :
              (ops[k2].card = ops[k1].card + 1 /\ ops[k1].card = 9)
                  => /\ ops[k1].number = <<"#", "0", "0", "9">>
                     /\ ops[k2].number = <<"#", "0", "1", "0">>
                     /\ ops[k1].slot = 0 /\ ops[k2].slot = 1

C26_Witness ==
    /\ prog = "cards_ai" /\ pc = "done"
    /\ \E k \in Draws("front") :
          /\ ops[k].card = 12 /\ ops[k].slot = 3
          /\ ops[k].number = <<"#", "0", "1", "2">>
    /\ \E k \in Draws("front") :
          ops[k].slot = 3 /\ ops[k].number = <<"#", "0", "0", "3">>

(***************************************************************************)
(* Properties of the helpers of the image generator                        *)
(***************************************************************************)
\* C22: after the clamping the pasted subject lies within the background:
\* 0 <= paste_x, paste_x + new_subj_width <= bg_width, 0 <= paste_y and
\* paste_y + new_subj_height <= bg_height, for every subject size.
C22_SubjectWithinBounds ==
    (prog = "paste" /\ pc = "done" /\ retval.pasted) =>
        /\ 0 <= retval.x /\ retval.x + retval.w <= bg_width
        /\ 0 <= retval.y /\ retval.y + retval.h <= bg_height

\* C25: for every image of width w >= 1 and height h >= 1,
\* _process_image_for_card crops at most one dimension, the crop rectangle
\* lies inside the image with non-zero width and height and is centred (the
\* removed margins differ by at most 1), and the result is 1500 x 900.
C25_CropInsideAndCentred ==
    (prog = "process" /\ pc = "done") =>
        LET b == retval.box
            w == arg[1]
            h == arg[2]
        IN /\ (b.left = 0 /\ b.right = w) \/ (b.top = 0 /\ b.bottom = h)
           /\ 0 <= b.left /\ b.left < b.right /\ b.right <= w
           /\ 0 <= b.top /\ b.top < b.bottom /\ b.bottom <= h
           /\ (w - b.right) - b.left \in {0, 1}
           /\ (h - b.bottom) - b.top \in {0, 1}
           /\ retval.size = <<1500, 900>>

\* C24: _enhance_prompt returns at most 400 characters; a prompt that had to
\* be shortened is exactly 400 characters long and ends with "..."; at most
\* one enhancement is appended: the title theme when the title is not empty,
\* otherwise the theme of a known card type.
C24_PromptLimit ==
    (prog = "prompt" /\ pc = "done") =>
        LET base == arg[1]
            title == arg[2]
            type == arg[3]
            out == retval.prompt
            tail_ == Len(comma) + Len(style_additions)
            extra == IF title # <<>>
                     THEN Len(comma) + Len(themed_around) + Len(title) + 1
                     ELSE IF type \in KnownTypes
                     THEN Len(comma) + Len(type_themes(type))
                     ELSE 0
            whole == Len(base) + extra + tail_
        IN /\ Len(out) <= 400
           /\ retval.shortened <=> whole > 400
           /\ retval.shortened =>
                  /\ Len(out) = 400
                  /\ SubSeq(out, 398, 400) = <<".", ".", ".">>
                  /\ SubSeq(out, 1, Min(Len(base), 397)) = SubSeq(base, 1, Min(Len(base), 397))
           /\ ~retval.shortened =>
                  /\ Len(out) = whole
                  /\ SubSeq(out, 1, Len(base)) = base
                  /\ SubSeq(out, Len(out) - Len(style_additions) + 1, Len(out))
                         = style_additions
                  /\ title # <<>> =>
                         SubSeq(out, Len(base) + 3, Len(base) + 2 + Len(themed_around))
                             = themed_around
                  /\ (title = <<>> /\ type = type_Attack) =>
                         SubSeq(out, Len(base) + 3, Len(base) + 9)
                             = <<"d", "y", "n", "a", "m", "i", "c">>

C24_Witness ==
    /\ prog = "prompt" /\ pc = "done"
    /\ retval.shortened /\ Len(retval.prompt) = 400
    /\ Len(arg[1]) = 340 /\ arg[2] # <<>> /\ arg[3] = type_Hacker

C24_WitnessWhole ==
    /\ prog = "prompt" /\ pc = "done"
    /\ ~retval.shortened /\ Len(retval.prompt) = 400
    /\ arg[2] = <<>> /\ arg[3] = type_Attack

\* C23: when no existing image is given (no path, or a path that does not
\* exist), create_composite_background always returns an image, never None:
\* the generated background if the generation succeeds, otherwise the simple
\* 1500 x 900 background in the colour of the card type (dark gray for an
\* unknown type).
C23_AlwaysAnImage ==
    (prog = "ai" /\ mode = "generate" /\ pc \in {"call", "image", "rest", "done"}) =>
        /\ enriched = "image"
        /\ retval # <<>>
        /\ retval.size = <<1500, 900>>
        /\ ret = "image" => retval.kind = "generated" /\ failure = "none"
        /\ ret # "image" =>
               /\ retval.kind = "simple"
               /\ get(card, "type", <<>>) = type_Attack => retval.color = "#8B0000"
               /\ get(card, "type", <<>>) \notin KnownTypes => retval.color = "#2F2F2F"

C23_Witness ==
    /\ prog = "ai" /\ mode = "generate" /\ pc = "done"
    /\ failure = "network" /\ ret = "null"
    /\ retval.kind = "simple" /\ retval.color = "#8B0000"
    /\ enriched = "image"

C23_WitnessUnknownType ==
    /\ prog = "ai" /\ mode = "generate" /\ pc = "done"
    /\ failure = "status" /\ "type" \notin DOMAIN card
    /\ retval.kind = "simple" /\ retval.color = "#2F2F2F"

C23_WitnessGenerated ==
    /\ prog = "ai" /\ mode = "generate" /\ pc = "done"
    /\ ~exists /\ ret = "image" /\ retval.kind = "generated"

(***************************************************************************)
(* Properties of the loop of generate_ai_cards (SpecBatch)                 *)
(***************************************************************************)
IsBatch == prog = "batch"
BatchDone == IsBatch /\ pc = "done"

\* the record without its img field
WithoutImg(c) == [k \in DOMAIN c \ {"img"} |-> c[k]]

C27_PassThrough ==
    IsBatch =>
        /\ (disable_ai \/ ~api_key) =>
               /\ posts = 0 /\ saves = 0
               /\ processed_cards = SubSeq(cards_data, 1, idx)
               /\ pc = "done" => cards = cards_data
        /\ \A i \in DOMAIN processed_cards :
               ("ai_prompt" \notin DOMAIN cards_data[i] /\ ~auto) =>
                   /\ results[i] = "skip"
                   /\ processed_cards[i] = cards_data[i]
        /\ (~auto /\ \A i \in 1..idx : "ai_prompt" \notin DOMAIN cards_data[i]) =>
               posts = 0 /\ saves = 0

C27_Witness ==
    /\ BatchDone /\ ~disable_ai /\ ~api_key /\ auto
    /\ Len(cards) = 2 /\ cards = cards_data /\ cards[1] # cards[2]
    /\ "ai_prompt" \in DOMAIN cards[1] /\ posts = 0

C27_WitnessNoPrompt ==
    /\ BatchDone /\ ~disable_ai /\ api_key /\ ~auto
    /\ Len(cards) = 2
    /\ results = <<"skip", "image">> /\ cards[1] = cards_data[1] /\ posts = 1

\* C28: for every combination of flags and enrichment outcomes the list
\* handed to print_trading_cards_ai is as long as the input list, its i-th
\* record belongs to the i-th input record and the two differ in at most the
\* img field; when the enrichment of a card gives null the i-th record
\* equals the input record, its img included.
C28_SameListButImg ==
    IsBatch =>
        /\ Len(processed_cards) = idx /\ Len(results) = idx
        /\ pc = "done" => cards = processed_cards /\ Len(cards) = Len(cards_data)
        /\ \A i \in DOMAIN processed_cards :
               /\ WithoutImg(processed_cards[i]) = WithoutImg(cards_data[i])
               /\ results[i] # "image" => processed_cards[i] = cards_data[i]
               /\ results[i] = "image" => processed_cards[i]["img"] = saved_path

C28_Witness ==
    /\ BatchDone /\ Len(cards) = 2
    /\ results = <<"null", "image">>
    /\ cards[1] = cards_data[1] /\ "img" \in DOMAIN cards[1]
    /\ cards[1]["img"] = <<"a", "r", "t">>
    /\ cards[2] # cards_data[2]


====
